---------------------------- MODULE Spec2Model ----------------------------
(***************************************************************************)
(* A model of the AI-Prolog runtime of zamia-ai:                           *)
(*   src/aiprolog/runtime.py  builtins, action buffer, context store       *)
(*   src/aiprolog/pl2rdf.py   term <-> rdf literal codec, filter builder   *)
(*                                                                         *)
(* The specifications share the variables:                                 *)
(*   SpecPush    the context store: read_context, write_context, push      *)
(*   SpecScore   context_score over stored stacks                          *)
(*   SpecAct     the action buffer: queueing, eoa, get_actions, reset      *)
(*   SpecExec    execute_builtin_actions on committed records              *)
(*   SpecSkip    execute_builtin_actions on sub-actions of every shape     *)
(*   SpecRdf     the query builder _rdf_exec                               *)
(*   SpecScan    _rdf_exec scanning directives                             *)
(*   SpecUse     rdf and rdf_lists binding the solutions                   *)
(*   SpecFilter  _rdf_exec combining filters                               *)
(*   SpecSparql  sparql_query                                              *)
(*   SpecStore   writes and reads beside entries of other users and keys   *)
(*   SpecRead    context_get with and without a current user               *)
(*   SpecLower   prolog_to_filter_expression                               *)
(*   SpecCodec   pl_literal_to_rdf and rdf_to_pl                           *)
(*   SpecDefault pushes and writes beside an entry of the default user     *)
(*                                                                         *)
(* Numbers.  Scores and points are floats in the code.  The model keeps    *)
(* them as integers counted in fifths (the integer n stands for n/5), and  *)
(* draws points from multiples of 60 (= 12.0), so that points / float(i)   *)
(* is exact for every stack position i <= 6; float rounding is not         *)
(* modelled.                                                               *)
(***************************************************************************)
EXTENDS Integers, Sequences, FiniteSets, TLC

VARIABLES
    kb,             \* the store: a set of quads [s, p, o, g]
    emptyListFalse, \* whether bool(ListLiteral([])) is False in zamiaprolog
    env,            \* g.env of the goal being resolved: name -> value
    action_buffer,  \* AIPrologRuntime.action_buffer: committed records
    op,             \* the last call made on the runtime (name and inputs)
    ret,            \* what that call returned or raised
    hist,           \* history: per context key, contents before the pushes
                    \*   and the terms pushed since
    hlog,           \* history: handler invocations of this turn
    execCalls,      \* history: execute_builtin_actions calls per record
    nexec,          \* history: execute_builtin_actions calls of the run
    dispatched,     \* history: algebra trees handed to kb.query_algebra
    goal            \* the argument list of the rdf goal being resolved,
                    \*   as its items: a triple (3 terms) or a directive

vars == <<kb, emptyListFalse, env, action_buffer, op, ret, hist, hlog,
          execCalls, nexec, dispatched, goal>>

-----------------------------------------------------------------------------
(* Constants of runtime.py and pl2rdf.py *)

CONTEXT_GRAPH_NAME == "http://ai.zamia.org/context"
CURIN              == "http://ai.zamia.org/kb/curin"
DEFAULT_USER       == "http://ai.zamia.org/kb/user/default"
MAX_CONTEXT_LEN    == 6
ACTION_VARNAME     == "__ACTION__"
DT_LIST            == "http://ai.zamia.org/types/list"
DT_CONSTANT        == "http://ai.zamia.org/types/constant"
XSD_DECIMAL        == "http://www.w3.org/2001/XMLSchema#decimal"

\* KB_PREFIX + u'user'
KB_USER_PROP       == "http://ai.zamia.org/kb/user"

\* USER_PROP_PREFIX + key, for the context keys of the model
USER_PROP_PREFIX(key) ==
    CASE key = "topic" -> "http://ai.zamia.org/kb/user/prop/topic"
      [] key = "mood"  -> "http://ai.zamia.org/kb/user/prop/mood"

\* the graph of the knowledge base proper (anything but the context graph)
KB_GRAPH_NAME      == "http://ai.zamia.org/kb"

\* the one user of the model who can be the current user
ALICE              == "http://ai.zamia.org/kb/user/alice"

-----------------------------------------------------------------------------
(* Terms of zamiaprolog.logic, as records tagged with their class *)

None              == [t |-> "None"]
Predicate(n, a)   == [t |-> "Predicate", name |-> n, args |-> a]
Constant(n)       == Predicate(n, <<>>)
StringLiteral(s)  == [t |-> "StringLiteral", s |-> s]
NumberLiteral(f)  == [t |-> "NumberLiteral", f |-> f]
ListLiteral(l)    == [t |-> "ListLiteral", l |-> l]
Variable(n)       == [t |-> "Variable", name |-> n]

\* a NumberLiteral whose float needs more than the 12 significant digits
\* str() spells (0.1 + 0.2, say): f is the float rounded to 12 digits
LongFloat(f)      == [t |-> "NumberLiteral", f |-> f, rest |-> 1]
IsLong(x)         == "rest" \in DOMAIN x

isinstance(x, cls) == x.t = cls

\* Python's truth value of a term or None.  The classes come from
\* zamiaprolog.logic; only an empty ListLiteral can be false, and only if
\* that class defines __len__.
Truthy(x) ==
    CASE x.t = "None"        -> FALSE
      [] x.t = "ListLiteral" -> (x.l # <<>>) \/ ~emptyListFalse
      [] OTHER               -> TRUE

(* Nodes of rdflib *)

\* a Literal holds text; the model keeps the text of a decimal as the number
\* it spells and the text of a list as the JSON tree it spells
Literal(v, dt)    == [t |-> "Literal", value |-> v, datatype |-> dt]
PlainLiteral(v)   == Literal(v, "none")
DecimalLiteral(f) == [t |-> "Literal", numeral |-> f, datatype |-> XSD_DECIMAL]
JsonLiteral(j)    == [t |-> "Literal", json |-> j, datatype |-> DT_LIST]
URIRef(v)      == [t |-> "URIRef", value |-> v]
RdfVariable(n) == [t |-> "rdflib.Variable", value |-> n]

\* the strings of the model that start with 'http://'
startswith_http(s) ==
    s \in {CONTEXT_GRAPH_NAME, CURIN, DEFAULT_USER, ALICE, KB_USER_PROP,
           USER_PROP_PREFIX("topic"), USER_PROP_PREFIX("mood"),
           "http://www.wikidata.org/entity/Q1"}

\* kb.resolve_aliases_prefixes: one alias, everything else is left alone
resolve_aliases_prefixes(name) ==
    IF name = "wde:Q1" THEN "http://www.wikidata.org/entity/Q1" ELSE name

-----------------------------------------------------------------------------
(* pl2rdf.py: the codec *)

RECURSIVE JsonDefault(_)
\* PrologJSONEncoder.default applied through a term; "TypeError" wherever
\* json.JSONEncoder.default is reached
JsonDefault(o) ==
    CASE o.t = "NumberLiteral" ->
            \* json spells a float with repr(), which keeps every digit
            IF IsLong(o)
            THEN [pt |-> "NumberLiteral", f |-> o.f, rest |-> o.rest]
            ELSE [pt |-> "NumberLiteral", f |-> o.f]
      [] o.t = "ListLiteral"   ->
            [pt |-> "ListLiteral",
             l  |-> [i \in 1..Len(o.l) |-> JsonDefault(o.l[i])]]
      [] o.t = "StringLiteral" -> [pt |-> "StringLiteral", s |-> o.s]
      [] o.t = "Predicate" /\ Len(o.args) = 0 ->
            [pt |-> "Constant", name |-> o.name]
      [] OTHER -> [pt |-> "TypeError"]

RECURSIVE JsonOk(_)
JsonOk(j) ==
    CASE j.pt = "TypeError"   -> FALSE
      [] j.pt = "ListLiteral" -> \A i \in 1..Len(j.l) : JsonOk(j.l[i])
      [] OTHER                -> TRUE

RECURSIVE _prolog_from_json(_)
\* the object hook, applied bottom-up by the JSON decoder
_prolog_from_json(o) ==
    CASE o.pt = "Constant"      -> Constant(o.name)
      [] o.pt = "StringLiteral" -> StringLiteral(o.s)
      [] o.pt = "NumberLiteral" ->
            IF IsLong(o) THEN LongFloat(o.f) ELSE NumberLiteral(o.f)
      [] o.pt = "ListLiteral"   ->
            ListLiteral([i \in 1..Len(o.l) |-> _prolog_from_json(o.l[i])])

Raise(what) == [t |-> "Error", error |-> what]
IsError(x)  == x.t = "Error"

\* pl_literal_to_rdf(a, kb): an rdflib node, or the error raised
pl_literal_to_rdf(a) ==
    \* str(a.f) spells 12 significant digits
    CASE a.t = "NumberLiteral" -> DecimalLiteral(a.f)
      [] a.t = "StringLiteral" ->
            IF startswith_http(a.s) THEN URIRef(a.s) ELSE PlainLiteral(a.s)
      [] a.t = "ListLiteral" ->
            IF JsonOk(JsonDefault(a))
            THEN JsonLiteral(JsonDefault(a))
            ELSE Raise("TypeError")
      [] a.t = "Predicate" ->
            IF Len(a.args) > 0
            THEN Raise("PrologError: only constants are supported")
            ELSE IF startswith_http(resolve_aliases_prefixes(a.name))
                 THEN URIRef(resolve_aliases_prefixes(a.name))
                 ELSE Literal(a.name, DT_CONSTANT)
      [] OTHER -> Raise("PrologError: unknown argument type")

\* rdf_to_pl(l) for the datatypes the model stores
rdf_to_pl(l) ==
    IF isinstance(l, "Literal")
    THEN CASE l.datatype = XSD_DECIMAL -> NumberLiteral(l.numeral)
           [] l.datatype = DT_LIST     -> _prolog_from_json(l.json)
           [] l.datatype = DT_CONSTANT -> Constant(l.value)
           [] l.datatype = "none"      -> StringLiteral(l.value)
           [] OTHER -> Raise("PrologRuntimeError: unknown datatype")
    ELSE StringLiteral(l.value)

-----------------------------------------------------------------------------
(* The store collaborator (kb): quads, filtering, remove, addN *)

Quad(s, p, o, g) == [s |-> s, p |-> p, o |-> o, g |-> g]

\* kb.filter_quads(s=, p=): the matching quads of every graph.  None stands
\* for "any" in the store's patterns (the o and context the callers leave
\* out, the object of the pattern handed to remove), so a lookup with
\* s=None matches every subject
filter_quads(store, s, p) ==
    {q \in store : (s = "None" \/ q.s = s) /\ q.p = p}

\* kb.remove((s, p, None, g)): every object of (s, p) in graph g goes
kb_remove(store, s, p, g) ==
    {q \in store : ~((s = "None" \/ q.s = s) /\ q.p = p /\ q.g = g)}

kb_addN(store, quads) == store \cup quads

-----------------------------------------------------------------------------
(* runtime.py: the context store.  filter_quads yields the matching quads  *)
(* in an order the store chooses, and the code takes the first: the        *)
(* operators below give the set of values a call can return.               *)

Take(s, n) == SubSeq(s, 1, IF Len(s) < n THEN Len(s) ELSE n)

\* get_user: the text of the current user's node, or "None"
get_user(store) ==
    IF filter_quads(store, CURIN, KB_USER_PROP) = {}
    THEN {"None"}
    ELSE {q.o.value : q \in filter_quads(store, CURIN, KB_USER_PROP)}

\* (mutant) read_context looking at the current user only
read_context_own(store, key) ==
    UNION {
        IF filter_quads(store, user, USER_PROP_PREFIX(key)) # {}
        THEN {rdf_to_pl(q.o) :
                 q \in filter_quads(store, user, USER_PROP_PREFIX(key))}
        ELSE {None}
      : user \in get_user(store) }

\* read_context(key): the decoded value, or None
read_context(store, key) ==
    UNION {
        IF filter_quads(store, user, USER_PROP_PREFIX(key)) # {}
        THEN {rdf_to_pl(q.o) :
                 q \in filter_quads(store, user, USER_PROP_PREFIX(key))}
        ELSE IF filter_quads(store, DEFAULT_USER, USER_PROP_PREFIX(key)) # {}
        THEN {rdf_to_pl(q.o) :
                 q \in filter_quads(store, DEFAULT_USER, USER_PROP_PREFIX(key))}
        ELSE {None}
      : user \in get_user(store) }

\* the outcome of a call that may change the store
Outcome(store, r) == [kb |-> store, ret |-> r]

\* (mutant) the new entry is added beside the old ones
write_context_keep(store, key, value) ==
    { IF IsError(pl_literal_to_rdf(value))
      THEN Outcome(store, pl_literal_to_rdf(value))
      ELSE Outcome(
             kb_addN(store,
                     {Quad(user, USER_PROP_PREFIX(key),
                           pl_literal_to_rdf(value), CONTEXT_GRAPH_NAME)}),
             None)
      : user \in get_user(store) }

\* (mutant) the old entry is removed before the value is encoded
write_context_remove_first(store, key, value) ==
    { IF IsError(pl_literal_to_rdf(value))
      THEN Outcome(kb_remove(store, user, USER_PROP_PREFIX(key),
                             CONTEXT_GRAPH_NAME),
                   pl_literal_to_rdf(value))
      ELSE Outcome(
             kb_addN(kb_remove(store, user, USER_PROP_PREFIX(key),
                               CONTEXT_GRAPH_NAME),
                     {Quad(user, USER_PROP_PREFIX(key),
                           pl_literal_to_rdf(value), CONTEXT_GRAPH_NAME)}),
             None)
      : user \in get_user(store) }

\* write_context(key, value): encode first, then remove and insert
write_context(store, key, value) ==
    { IF IsError(pl_literal_to_rdf(value))
      THEN Outcome(store, pl_literal_to_rdf(value))
      ELSE Outcome(
             kb_addN(kb_remove(store, user, USER_PROP_PREFIX(key),
                               CONTEXT_GRAPH_NAME),
                     {Quad(user, USER_PROP_PREFIX(key),
                           pl_literal_to_rdf(value), CONTEXT_GRAPH_NAME)}),
             None)
      : user \in get_user(store) }

\* (mutant) the value goes in front and nothing is cut
PushedListUncut(l, value) == <<value>> \o l

\* the list push_context writes back: value first, cut to MAX_CONTEXT_LEN
PushedList(l, value) == Take(<<value>> \o l, MAX_CONTEXT_LEN)

\* push_context(key, value), given the value l that read_context returned
push_context_from(store, key, value, l) ==
    IF IsError(l)
    THEN {Outcome(store, l)}
    ELSE IF ~Truthy(l)
    THEN write_context(store, key, ListLiteral(PushedList(<<>>, value)))
    ELSE IF ~isinstance(l, "ListLiteral")
    THEN {Outcome(store, Raise("AttributeError"))}
    ELSE write_context(store, key, ListLiteral(PushedList(l.l, value)))

\* push_context(key, value)
push_context(store, key, value) ==
    UNION { push_context_from(store, key, value, l) :
               l \in read_context(store, key) }

-----------------------------------------------------------------------------
(* The resolution engine, as far as the builtins use it *)

EmptyEnv == [n \in {} |-> None]

\* pe.prolog_eval(term, env): a variable's binding (None when unbound),
\* any other term as it is
prolog_eval(term, e) ==
    IF term.t = "Variable"
    THEN IF term.name \in DOMAIN e THEN e[term.name] ELSE None
    ELSE term

\* g.env[name] = value
Bind(e, name, value) == (name :> value) @@ e

-----------------------------------------------------------------------------
(* runtime.py: builtin_context_score *)

\* the name of the variable context_score binds its score to
SCOREV == "Score"

\* points / float(i); points are multiples of 60 and i <= 6, so it is exact
PointsAt(points, i) == points \div i

\* the 1-based position of the first v in l, 0 when there is none
FirstIndex(l, v) ==
    IF \E i \in 1..Len(l) : l[i] = v
    THEN CHOOSE i \in 1..Len(l) :
            l[i] = v /\ \A j \in 1..(i-1) : l[j] # v
    ELSE 0

Returned(r, e) == [ret |-> r, env |-> e]
PyBool(b)      == [t |-> "bool", b |-> b]
Solutions(l)   == [t |-> "solutions", l |-> l]

\* (mutant) bound mode rejecting a score equal to the minimum
ScoreBoundStrict(stack, value, points, score, min_score, e) ==
    IF Truthy(stack) /\ ~isinstance(stack, "ListLiteral")
    THEN Returned(Raise("AttributeError"), e)
    ELSE LET s == IF Truthy(stack) /\ FirstIndex(stack.l, value) > 0
                  THEN score + PointsAt(points, FirstIndex(stack.l, value))
                  ELSE score
         IN  IF s <= min_score
             THEN Returned(PyBool(FALSE), e)
             ELSE Returned(PyBool(TRUE), Bind(e, SCOREV, NumberLiteral(s)))

\* (mutant) bound mode scoring the last occurrence of the candidate
ScoreBoundLast(stack, value, points, score, min_score, e) ==
    IF Truthy(stack) /\ ~isinstance(stack, "ListLiteral")
    THEN Returned(Raise("AttributeError"), e)
    ELSE LET last == IF Truthy(stack)
                     THEN {i \in 1..Len(stack.l) :
                             /\ stack.l[i] = value
                             /\ \A j \in (i+1)..Len(stack.l) : stack.l[j] # value}
                     ELSE {}
             s == IF last # {}
                  THEN score + PointsAt(points, CHOOSE i \in last : TRUE)
                  ELSE score
         IN  IF s < min_score
             THEN Returned(PyBool(FALSE), e)
             ELSE Returned(PyBool(TRUE), Bind(e, SCOREV, NumberLiteral(s)))

\* lines 154-169: the candidate is given
ScoreBound(stack, value, points, score, min_score, e) ==
    IF Truthy(stack) /\ ~isinstance(stack, "ListLiteral")
    THEN Returned(Raise("AttributeError"), e)
    ELSE LET s == IF Truthy(stack) /\ FirstIndex(stack.l, value) > 0
                  THEN score + PointsAt(points, FirstIndex(stack.l, value))
                  ELSE score
         IN  IF s < min_score
             THEN Returned(PyBool(FALSE), e)
             ELSE Returned(PyBool(TRUE), Bind(e, SCOREV, NumberLiteral(s)))

\* (mutant) unbound mode dropping a score equal to the minimum
ScoreUnboundStrict(stack, vname, points, score, min_score, e) ==
    IF Truthy(stack) /\ ~isinstance(stack, "ListLiteral")
    THEN Returned(Raise("AttributeError"), e)
    ELSE IF Truthy(stack)
    THEN LET keep == SelectSeq([i \in 1..Len(stack.l) |-> i],
                       LAMBDA i : score + PointsAt(points, i) > min_score)
         IN  Returned(Solutions(
                 [j \in 1..Len(keep) |->
                     (vname :> stack.l[keep[j]]) @@
                     (SCOREV :> NumberLiteral(
                                   score + PointsAt(points, keep[j])))]), e)
    ELSE IF score >= min_score
    THEN Returned(Solutions(
             << (vname :> ListLiteral(<<>>)) @@
                (SCOREV :> NumberLiteral(score)) >>), e)
    ELSE Returned(Solutions(<<>>), e)

\* lines 174-194: the candidate is an unbound variable named vname
ScoreUnbound(stack, vname, points, score, min_score, e) ==
    IF Truthy(stack) /\ ~isinstance(stack, "ListLiteral")
    THEN Returned(Raise("AttributeError"), e)
    ELSE IF Truthy(stack)
    THEN LET keep == SelectSeq([i \in 1..Len(stack.l) |-> i],
                       LAMBDA i : score + PointsAt(points, i) >= min_score)
         IN  Returned(Solutions(
                 [j \in 1..Len(keep) |->
                     (vname :> stack.l[keep[j]]) @@
                     (SCOREV :> NumberLiteral(
                                   score + PointsAt(points, keep[j])))]), e)
    ELSE IF score >= min_score
    THEN Returned(Solutions(
             << (vname :> ListLiteral(<<>>)) @@
                (SCOREV :> NumberLiteral(score)) >>), e)
    ELSE Returned(Solutions(<<>>), e)

\* context_score(+Name, ?Value, +Points, ?Score [, +MinPoints]) on the goal
\* environment e; arg1 is the second argument as written
builtin_context_score(store, e, key, arg1, points, min_score) ==
    LET value == prolog_eval(arg1, e)
        score == IF SCOREV \in DOMAIN e THEN e[SCOREV].f ELSE 0
    IN  { IF Truthy(value)
          THEN IF IsError(stack)
               THEN Returned(stack, e)
               ELSE ScoreBound(stack, value, points, score, min_score, e)
          ELSE IF ~isinstance(arg1, "Variable")
          THEN Returned(Raise("PrologRuntimeError: arg 2"), e)
          ELSE IF IsError(stack)
          THEN Returned(stack, e)
          ELSE ScoreUnbound(stack, arg1.name, points, score, min_score, e)
        : stack \in read_context(store, key) }

-----------------------------------------------------------------------------
(* Bounds and input sets *)

\* pushes followed per key between two writes
MaxPush == 7

V1 == Constant("v1")
V2 == Constant("v2")
V3 == Constant("v3")

CtxKeys    == {"topic"}
PushValues == {V1, V2}
\* what write_context is called with: the stack of the spec's example, an
\* empty stack, a value that is no list, a term the codec rejects
WriteValues == {ListLiteral(<<V1, V2, V3>>), ListLiteral(<<>>), V1,
                Predicate("f", <<V1>>)}
\* the stacks context_score is run on: every stack of up to MaxStack entries,
\* the longest stacks the store keeps, and a value that is no list
MaxStack == 2
RECURSIVE SeqsUpTo(_, _)
SeqsUpTo(S, n) ==
    IF n = 0 THEN {<<>>}
    ELSE SeqsUpTo(S, n - 1) \cup
         {Append(q, x) : q \in {r \in SeqsUpTo(S, n - 1) : Len(r) = n - 1},
                         x \in S}
ScoreStacks ==
    {ListLiteral(l) : l \in SeqsUpTo({V1, V2, V3}, MaxStack)} \cup
    {ListLiteral(<<V1, V2, V3>>), ListLiteral(<<V3, V3, V3, V3, V2, V1>>),
     ListLiteral(<<V2, V3, V2, V3, V1, V1>>), V1}
\* second argument of context_score: a candidate, or an unbound variable
ScoreArgs   == {V1, V2, V3, Variable("X")}
\* points: 12.0 and -12.0
PointsSet   == {60, 0 - 60}
\* the score variable on entry: unbound, or bound to -3.0
ScoreIns    == {<<>>, <<0 - 15>>}
\* the optional fifth argument: absent, or 5.0
MinPoints   == {<<>>, <<25>>}

\* what the store holds before the first turn: who the current user is,
\* and possibly a context entry of the default user
CurinQuad == Quad(CURIN, KB_USER_PROP, URIRef(ALICE), KB_GRAPH_NAME)
DefaultEntries ==
    { {},
      {Quad(DEFAULT_USER, USER_PROP_PREFIX("topic"),
            pl_literal_to_rdf(ListLiteral(<<V3>>)), CONTEXT_GRAPH_NAME)} }

NoHist == [k \in {"topic", "mood"} |-> [prior |-> <<>>, pushed |-> <<>>]]

InitCommon ==
    /\ \E d \in DefaultEntries : kb = {CurinQuad} \cup d
    /\ emptyListFalse \in BOOLEAN
    /\ env = EmptyEnv
    /\ action_buffer = <<>>
    /\ op = [name |-> "init"]
    /\ ret = None
    /\ hist = NoHist
    /\ hlog = <<>>
    /\ execCalls = <<>>
    /\ nexec = 0
    /\ dispatched = <<>>

\* no rdf goal is being resolved
InitCtx ==
    /\ InitCommon
    /\ goal = <<>>

-----------------------------------------------------------------------------
(* SpecPush: the context store called directly *)

\* the history of a key after a write / after a push that read l
HistWrite(value) ==
    [prior  |-> IF isinstance(value, "ListLiteral") THEN value.l ELSE <<>>,
     pushed |-> <<>>]
HistPush(h, l, value) ==
    [prior  |-> IF h.pushed # <<>> THEN h.prior
                ELSE IF Truthy(l) THEN l.l ELSE <<>>,
     pushed |-> Append(h.pushed, value)]

CtxWrite(key, value) ==
    /\ \E o \in write_context(kb, key, value) :
          /\ kb'   = o.kb
          /\ ret'  = o.ret
          /\ hist' = IF IsError(o.ret) THEN hist
                     ELSE [hist EXCEPT ![key] = HistWrite(value)]
    /\ op' = [name |-> "write_context", key |-> key, value |-> value]
    /\ UNCHANGED <<emptyListFalse, env, action_buffer, hlog, execCalls,
                   nexec, dispatched, goal>>

CtxPush(key, value) ==
    /\ Len(hist[key].pushed) < MaxPush
    /\ \E l \in read_context(kb, key) :
       \E o \in push_context_from(kb, key, value, l) :
          /\ kb'   = o.kb
          /\ ret'  = o.ret
          /\ hist' = IF IsError(o.ret) THEN hist
                     ELSE [hist EXCEPT ![key] = HistPush(hist[key], l, value)]
    /\ op' = [name |-> "push_context", key |-> key, value |-> value]
    /\ UNCHANGED <<emptyListFalse, env, action_buffer, hlog, execCalls,
                   nexec, dispatched, goal>>

CtxRead(key) ==
    /\ ret' \in read_context(kb, key)
    /\ op' = [name |-> "read_context", key |-> key]
    /\ UNCHANGED <<kb, emptyListFalse, env, action_buffer, hist, hlog,
                   execCalls, nexec, dispatched, goal>>

\* the goal environment context_score is called in
ScoreEnv(score_in) ==
    IF score_in = <<>> THEN EmptyEnv
    ELSE Bind(EmptyEnv, SCOREV, NumberLiteral(score_in[1]))

CtxScore(key, arg1, points, score_in, min_arg) ==
    /\ \E r \in builtin_context_score(kb, ScoreEnv(score_in), key, arg1,
                   points, IF min_arg = <<>> THEN 0 ELSE min_arg[1]) :
          /\ ret' = r.ret
          /\ env' = r.env
    /\ op' = [name |-> "context_score", key |-> key, arg1 |-> arg1,
              points |-> points, score_in |-> score_in, min_arg |-> min_arg]
    /\ UNCHANGED <<kb, emptyListFalse, action_buffer, hist, hlog, execCalls,
                   nexec, dispatched, goal>>

NextPush ==
    \/ \E key \in CtxKeys, value \in WriteValues : CtxWrite(key, value)
    \/ \E key \in CtxKeys, value \in PushValues : CtxPush(key, value)
    \/ \E key \in CtxKeys : CtxRead(key)

SpecPush == InitCtx /\ [][NextPush]_vars

\* SpecScore: context_score over the stacks that context_set can store
NextScore ==
    \/ \E key \in CtxKeys, value \in ScoreStacks : CtxWrite(key, value)
    \/ \E key \in CtxKeys, arg1 \in ScoreArgs, points \in PointsSet,
          score_in \in ScoreIns, min_arg \in MinPoints :
          CtxScore(key, arg1, points, score_in, min_arg)

SpecScore == InitCtx /\ [][NextScore]_vars

-----------------------------------------------------------------------------
(* runtime.py: the action buffer *)

\* a Python str, as say queues it
PyStr(x) == [t |-> "str", s |-> x]

\* the in-progress action list g.env[ACTION_VARNAME]
InProgress(e) == ACTION_VARNAME \in DOMAIN e
Unbind(e, name) == [n \in DOMAIN e \ {name} |-> e[n]]

\* _queue_action(g, action): create the list on first use, then append
_queue_action(e, action) ==
    IF ~InProgress(e)
    THEN Bind(e, ACTION_VARNAME, <<action>>)
    ELSE [e EXCEPT ![ACTION_VARNAME] = Append(@, action)]

\* (mutant) the wrapper starting a new list on every call
WrapperForgets(name, args, e) ==
    Bind(e, ACTION_VARNAME,
         << <<Constant(name)>> \o [i \in 1..Len(args) |-> prolog_eval(args[i], e)] >>)

\* _builtin_action_wrapper(name, g, pe): the environment after the call
_builtin_action_wrapper(name, args, e) ==
    LET l == <<Constant(name)>> \o
             [i \in 1..Len(args) |-> prolog_eval(args[i], e)]
    IN  IF ~InProgress(e)
        THEN Bind(e, ACTION_VARNAME, <<l>>)
        ELSE [e EXCEPT ![ACTION_VARNAME] = Append(@, l)]

\* (mutant) end_action putting the record in front
end_action_front(buf, actions, score) ==
    <<[actions |-> actions, score |-> score]>> \o buf

\* end_action(actions, score)
end_action(buf, actions, score) ==
    Append(buf, [actions |-> actions, score |-> score])

\* (mutant) _eoa committing an empty record when nothing is in progress
EoaLenient(buf, e, score) ==
    IF ~InProgress(e)
    THEN [buf |-> end_action(buf, <<>>, score), env |-> e, ret |-> PyBool(TRUE)]
    ELSE [buf |-> end_action(buf, e[ACTION_VARNAME], score),
          env |-> Unbind(e, ACTION_VARNAME), ret |-> PyBool(TRUE)]

\* (mutant) _eoa committing the list and leaving it in the environment
EoaKeepsList(buf, e, score) ==
    IF ~InProgress(e)
    THEN [buf |-> buf, env |-> e,
          ret |-> Raise("PrologRuntimeError: eoa: no action defined.")]
    ELSE [buf |-> end_action(buf, e[ACTION_VARNAME], score),
          env |-> e, ret |-> PyBool(TRUE)]

\* _eoa(g, pe, score) and the True its callers return
_eoa(buf, e, score) ==
    IF ~InProgress(e)
    THEN [buf |-> buf, env |-> e,
          ret |-> Raise("PrologRuntimeError: eoa: no action defined.")]
    ELSE [buf |-> end_action(buf, e[ACTION_VARNAME], score),
          env |-> Unbind(e, ACTION_VARNAME), ret |-> PyBool(TRUE)]

RECURSIVE HighScore(_, _, _)
\* lines 757-763: highscore starts at 0 and is raised by every larger score
HighScore(buf, i, highscore) ==
    IF i > Len(buf) THEN highscore
    ELSE HighScore(buf, i + 1,
                   IF buf[i].score > highscore THEN buf[i].score
                   ELSE highscore)

\* get_actions(highscore_only): the indices of the records returned
get_actions_idx(buf, highscore_only) ==
    IF ~highscore_only
    THEN [i \in 1..Len(buf) |-> i]
    ELSE SelectSeq([i \in 1..Len(buf) |-> i],
                   LAMBDA i : ~(buf[i].score < HighScore(buf, 1, 0)))

\* get_actions(highscore_only)
get_actions(buf, highscore_only) ==
    [j \in 1..Len(get_actions_idx(buf, highscore_only)) |->
        buf[get_actions_idx(buf, highscore_only)[j]]]

\* self.builtin_actions, as registered in __init__
builtin_actions == {"context_set", "context_push", "rdf_assert"}

\* pl_to_rdf(term, {}, pe, {}, kb) as rdf_assert calls it: empty environment
pl_to_rdf_ground(term) ==
    IF ~Truthy(prolog_eval(term, EmptyEnv)) /\ isinstance(term, "Variable")
    THEN RdfVariable(term.name)
    ELSE pl_literal_to_rdf(prolog_eval(term, EmptyEnv))

\* builtin_action_context_set(pe, args)
builtin_action_context_set(store, args) ==
    IF Len(args) # 2
    THEN {Outcome(store, Raise("PrologRuntimeError: 2 args expected."))}
    ELSE IF ~("name" \in DOMAIN args[1])
    THEN {Outcome(store, Raise("AttributeError"))}
    ELSE write_context(store, args[1].name, args[2])

\* builtin_action_context_push(pe, args)
builtin_action_context_push(store, args) ==
    IF Len(args) # 2
    THEN {Outcome(store, Raise("PrologRuntimeError: 2 args expected."))}
    ELSE IF ~("name" \in DOMAIN args[1])
    THEN {Outcome(store, Raise("AttributeError"))}
    ELSE push_context(store, args[1].name, args[2])

\* builtin_action_rdf_assert(pe, args)
builtin_action_rdf_assert(store, args) ==
    IF Len(args) # 3
    THEN {Outcome(store, Raise("PrologRuntimeError: 3 args expected"))}
    ELSE IF \E i \in 1..3 : IsError(pl_to_rdf_ground(args[i]))
    THEN {Outcome(store, Raise("PrologError"))}
    ELSE {Outcome(kb_addN(store,
                     {Quad(pl_to_rdf_ground(args[1]).value,
                           pl_to_rdf_ground(args[2]).value,
                           pl_to_rdf_ground(args[3]),
                           CONTEXT_GRAPH_NAME)}), None)}

\* self.builtin_actions[name](self, args)
Handler(name, store, args) ==
    CASE name = "context_set"  -> builtin_action_context_set(store, args)
      [] name = "context_push" -> builtin_action_context_push(store, args)
      [] name = "rdf_assert"   -> builtin_action_rdf_assert(store, args)

Executed(store, r, inv) == [kb |-> store, ret |-> r, invoked |-> inv]

\* (mutant) whether sub-action a is skipped: only non-predicate heads are
SkipsOnlyNonPredicates(a) == ~isinstance(a[1], "Predicate")

\* lines 739-744: whether the loop skips sub-action a
Skipped(a) ==
    \/ ~isinstance(a[1], "Predicate")
    \/ ~(a[1].name \in builtin_actions)

\* the handler run for a sub-action that is not skipped
HandlerFor(a, store) ==
    IF a[1].name \in builtin_actions
    THEN Handler(a[1].name, store, Tail(a))
    ELSE {Outcome(store, Raise("KeyError"))}

RECURSIVE ExecFrom(_, _, _, _)
\* execute_builtin_actions(abuf) from sub-action i on; inv lists the
\* sub-actions whose handler has been invoked.  A handler that raises ends
\* the loop.
ExecFrom(store, actions, i, inv) ==
    IF i > Len(actions)
    THEN {Executed(store, None, inv)}
    ELSE IF actions[i] = <<>>
    THEN {Executed(store, Raise("IndexError"), inv)}
    ELSE IF Skipped(actions[i])
    THEN ExecFrom(store, actions, i + 1, inv)
    ELSE UNION {
            IF IsError(o.ret)
            THEN {Executed(o.kb, o.ret, Append(inv, i))}
            ELSE ExecFrom(o.kb, actions, i + 1, Append(inv, i))
          : o \in HandlerFor(actions[i], store) }

execute_builtin_actions(store, abuf) == ExecFrom(store, abuf.actions, 1, <<>>)

-----------------------------------------------------------------------------
(* SpecAct: one goal environment calling the action builtins, and the     *)
(* caller of the runtime selecting and executing committed records         *)

\* sub-actions queued per turn, executions per run
MaxQueue == 2
MaxExec == 2

TOPIC == Constant("topic")

\* calls of the deferred builtins: name and arguments as written
DeferredCalls ==
    { <<"context_set",  <<TOPIC, V1>>>>,
      <<"context_set",  <<TOPIC>>>>,
      <<"context_push", <<TOPIC, V2>>>>,
      <<"rdf_assert",   <<StringLiteral(ALICE),
                          StringLiteral(USER_PROP_PREFIX("mood")), V1>>>> }
\* arguments of action(...): a head that is no predicate
ActionCalls == { <<StringLiteral("led on")>> }
\* eoa's optional score: absent, 1.0, -1.0
EoaScores    == {<<>>, <<5>>, <<0 - 5>>}
SayEoaScores == {<<>>, <<5>>}

RECURSIVE SumLen(_, _)
SumLen(buf, i) ==
    IF i > Len(buf) THEN 0 ELSE Len(buf[i].actions) + SumLen(buf, i + 1)
Queued ==
    SumLen(action_buffer, 1) +
    (IF InProgress(env) THEN Len(env[ACTION_VARNAME]) ELSE 0)

ActFrame == UNCHANGED <<emptyListFalse, hist, dispatched, goal>>

\* context_set / context_push / rdf_assert called during resolution
Deferred(name, args) ==
    /\ Queued < MaxQueue
    /\ env' = _builtin_action_wrapper(name, args, env)
    /\ ret' = PyBool(TRUE)
    /\ op'  = [name |-> "deferred", builtin |-> name, args |-> args]
    /\ UNCHANGED <<kb, action_buffer, hlog, execCalls, nexec>>
    /\ ActFrame

\* action(...)
Action(args) ==
    /\ Queued < MaxQueue
    /\ env' = _queue_action(env, [i \in 1..Len(args) |-> prolog_eval(args[i], env)])
    /\ ret' = PyBool(TRUE)
    /\ op'  = [name |-> "action", args |-> args]
    /\ UNCHANGED <<kb, action_buffer, hlog, execCalls, nexec>>
    /\ ActFrame

\* say(+Lang, +Str)
Say(lang, str) ==
    /\ Queued < MaxQueue
    /\ env' = _queue_action(env, <<Constant("say"), PyStr(lang), PyStr(str)>>)
    /\ ret' = PyBool(TRUE)
    /\ op'  = [name |-> "say", lang |-> lang, str |-> str]
    /\ UNCHANGED <<kb, action_buffer, hlog, execCalls, nexec>>
    /\ ActFrame

EoaScore(score_arg) == IF score_arg = <<>> THEN 0 ELSE score_arg[1]
\* the history of a committed record that has not been executed
Committed(buf) == IF Len(buf) > Len(action_buffer) THEN Append(execCalls, 0)
                  ELSE execCalls

\* eoa([+Score])
Eoa(score_arg) ==
    /\ LET r == _eoa(action_buffer, env, EoaScore(score_arg))
       IN  /\ action_buffer' = r.buf
           /\ env' = r.env
           /\ ret' = r.ret
           /\ execCalls' = Committed(r.buf)
    /\ op' = [name |-> "eoa", score_arg |-> score_arg,
              in_progress |-> InProgress(env)]
    /\ UNCHANGED <<kb, hlog, nexec>>
    /\ ActFrame

\* say_eoa(+Lang, +Str, [+Score])
SayEoa(lang, str, score_arg) ==
    /\ Queued < MaxQueue
    /\ LET r == _eoa(action_buffer,
                     _queue_action(env, <<Constant("say"), PyStr(lang), PyStr(str)>>),
                     EoaScore(score_arg))
       IN  /\ action_buffer' = r.buf
           /\ env' = r.env
           /\ ret' = r.ret
           /\ execCalls' = Committed(r.buf)
    /\ op' = [name |-> "say_eoa", score_arg |-> score_arg]
    /\ UNCHANGED <<kb, hlog, nexec>>
    /\ ActFrame

GetActions(highscore_only) ==
    /\ ret' = [t |-> "list", l |-> get_actions(action_buffer, highscore_only)]
    /\ op'  = [name |-> "get_actions", highscore_only |-> highscore_only]
    /\ UNCHANGED <<kb, env, action_buffer, hlog, execCalls, nexec>>
    /\ ActFrame

\* (mutant) a reset that keeps the record committed first
ResetActionsPartly ==
    /\ action_buffer' = Take(action_buffer, 1)
    /\ ret' = None
    /\ op'  = [name |-> "reset_actions", cleared |-> Len(action_buffer)]
    /\ hlog' = <<>>
    /\ execCalls' = Take(execCalls, 1)
    /\ UNCHANGED <<kb, env, nexec>>
    /\ ActFrame

\* reset_actions(); op keeps how many records the buffer held
ResetActions ==
    /\ action_buffer' = <<>>
    /\ ret' = None
    /\ op'  = [name |-> "reset_actions", cleared |-> Len(action_buffer)]
    /\ hlog' = <<>>
    /\ execCalls' = <<>>
    /\ UNCHANGED <<kb, env, nexec>>
    /\ ActFrame

\* whether record r is in what get_actions() returns
InHighest(buf, r) ==
    \E j \in 1..Len(get_actions_idx(buf, TRUE)) :
        get_actions_idx(buf, TRUE)[j] = r

\* execute_builtin_actions(abuf) on the committed record r
ExecuteBuiltinActions(r) ==
    /\ nexec < MaxExec
    /\ \E x \in execute_builtin_actions(kb, action_buffer[r]) :
          /\ kb'   = x.kb
          /\ ret'  = x.ret
          /\ hlog' = hlog \o
                [j \in 1..Len(x.invoked) |->
                    [rec |-> r, idx |-> x.invoked[j],
                     high |-> InHighest(action_buffer, r)]]
    /\ execCalls' = [execCalls EXCEPT ![r] = @ + 1]
    /\ nexec' = nexec + 1
    /\ op' = [name |-> "execute_builtin_actions", rec |-> r]
    /\ UNCHANGED <<env, action_buffer>>
    /\ ActFrame

NextAct ==
    \/ \E c \in DeferredCalls : Deferred(c[1], c[2])
    \/ \E args \in ActionCalls : Action(args)
    \/ Say("en", "hello")
    \/ \E score_arg \in EoaScores : Eoa(score_arg)
    \/ \E score_arg \in SayEoaScores : SayEoa("en", "hello", score_arg)
    \/ \E h \in BOOLEAN : GetActions(h)
    \/ ResetActions

InitAct ==
    /\ InitCtx
    /\ emptyListFalse = FALSE

SpecAct == InitAct /\ [][NextAct]_vars

\* SpecExec: actions are queued and committed, and the caller executes
\* committed records
ExecCalls ==
    { <<"context_push", <<TOPIC, V2>>>>,
      <<"context_set",  <<TOPIC>>>> }
ExecScores == {<<>>, <<5>>}

NextExec ==
    \/ \E c \in ExecCalls : Deferred(c[1], c[2])
    \/ Say("en", "hello")
    \/ \E score_arg \in ExecScores : Eoa(score_arg)
    \/ \E r \in 1..Len(action_buffer) : ExecuteBuiltinActions(r)

SpecExec == InitAct /\ [][NextExec]_vars

\* SpecSkip: records that hold sub-actions of every kind, executed
SkipActions == { <<>>, <<StringLiteral("led on")>>, <<Variable("X")>> }

NextSkip ==
    \/ Deferred("context_push", <<TOPIC, V2>>)
    \/ Say("en", "hello")
    \/ \E args \in SkipActions : Action(args)
    \/ Eoa(<<>>)
    \/ \E r \in 1..Len(action_buffer) : ExecuteBuiltinActions(r)

SpecSkip == InitAct /\ [][NextSkip]_vars

-----------------------------------------------------------------------------
(* runtime.py / pl2rdf.py: the query builder _rdf_exec *)

\* rdflib's CompValue(name, **values): one constructor per node the code
\* builds, with the keyword arguments it passes
BGP(triples, vs)     == [t |-> "BGP", triples |-> triples, _vars |-> vs]
TrueFilter           == [t |-> "TrueFilter", _vars |-> {}]
LeftJoin(p1, p2, expr) ==
    [t |-> "LeftJoin", p1 |-> p1, p2 |-> p2, expr |-> expr]
Filter(p, expr, vs)  == [t |-> "Filter", p |-> p, expr |-> expr, _vars |-> vs]
Slice(start, length, p, vs) ==
    [t |-> "Slice", start |-> start, length |-> length, p |-> p, _vars |-> vs]
Distinct(p, vs)      == [t |-> "Distinct", p |-> p, _vars |-> vs]
SelectQuery(p, PV, vs) ==
    [t |-> "SelectQuery", p |-> p, datasetClause |-> None, PV |-> PV,
     _vars |-> vs]

\* var_map: the names in the order of their first use; its values are the
\* rdflib variables of those names
VarSet(var_map) == {RdfVariable(var_map[i]) : i \in 1..Len(var_map)}

Converted(node, var_map) == [node |-> node, var_map |-> var_map]

\* (mutant) a new map entry for every occurrence of an unbound variable
pl_to_rdf_uninterned(term, e, var_map) ==
    IF ~Truthy(prolog_eval(term, e)) /\ isinstance(term, "Variable")
    THEN Converted(RdfVariable(term.name), Append(var_map, term.name))
    ELSE Converted(pl_literal_to_rdf(prolog_eval(term, e)), var_map)

\* pl_to_rdf(term, env, pe, var_map, kb): the node (or the error raised)
\* and var_map afterwards
pl_to_rdf(term, e, var_map) ==
    IF ~Truthy(prolog_eval(term, e)) /\ isinstance(term, "Variable")
    THEN Converted(RdfVariable(term.name),
                   IF \E i \in 1..Len(var_map) : var_map[i] = term.name
                   THEN var_map
                   ELSE Append(var_map, term.name))
    ELSE Converted(pl_literal_to_rdf(prolog_eval(term, e)), var_map)

RelationalOps == {"=", "\\=", "<", ">", "=<", ">=", "is"}
\* the operator name handed to _prolog_relational_expression
RelationalOp(name) ==
    CASE name = "\\=" -> "!="
      [] name = "=<"  -> "<="
      [] OTHER        -> name
\* the node name handed to _prolog_conditional_expression
ConditionalName(name) ==
    IF name = "and" THEN "ConditionalAndExpression"
    ELSE "ConditionalOrExpression"

RECURSIVE prolog_to_filter_expression(_, _, _)
RECURSIVE _prolog_relational_expression(_, _, _, _)
RECURSIVE _prolog_conditional_expression(_, _, _, _)

\* (mutant) further operands are let through and ignored
RelationalAtLeastTwo(o, args, e, var_map) ==
    IF Len(args) < 2
    THEN Converted(Raise("PrologError: _prolog_relational_expression: 2 args expected."),
                   var_map)
    ELSE LET expr == prolog_to_filter_expression(args[1], e, var_map)
         IN  IF IsError(expr.node) THEN expr
             ELSE LET other == prolog_to_filter_expression(args[2], e,
                                                           expr.var_map)
                  IN  IF IsError(other.node) THEN other
                      ELSE Converted(
                             [t |-> "RelationalExpression", op |-> o,
                              expr |-> expr.node, other |-> other.node,
                              _vars |-> VarSet(other.var_map)],
                             other.var_map)

_prolog_relational_expression(o, args, e, var_map) ==
    IF Len(args) # 2
    THEN Converted(Raise("PrologError: _prolog_relational_expression: 2 args expected."),
                   var_map)
    ELSE LET expr == prolog_to_filter_expression(args[1], e, var_map)
         IN  IF IsError(expr.node) THEN expr
             ELSE LET other == prolog_to_filter_expression(args[2], e,
                                                           expr.var_map)
                  IN  IF IsError(other.node) THEN other
                      ELSE Converted(
                             [t |-> "RelationalExpression", op |-> o,
                              expr |-> expr.node, other |-> other.node,
                              _vars |-> VarSet(other.var_map)],
                             other.var_map)

_prolog_conditional_expression(name, args, e, var_map) ==
    IF Len(args) # 2
    THEN Converted(Raise("PrologError: _prolog_conditional_expression: 2 args expected."),
                   var_map)
    ELSE LET expr == prolog_to_filter_expression(args[1], e, var_map)
         IN  IF IsError(expr.node) THEN expr
             ELSE LET other == prolog_to_filter_expression(args[2], e,
                                                           expr.var_map)
                  IN  IF IsError(other.node) THEN other
                      ELSE Converted(
                             [t |-> name, expr |-> expr.node,
                              other |-> <<other.node>>,
                              _vars |-> VarSet(other.var_map)],
                             other.var_map)

prolog_to_filter_expression(x, e, var_map) ==
    IF isinstance(x, "Predicate") /\ x.name \in RelationalOps
    THEN _prolog_relational_expression(RelationalOp(x.name), x.args, e, var_map)
    ELSE IF isinstance(x, "Predicate") /\ x.name \in {"and", "or"}
    THEN _prolog_conditional_expression(ConditionalName(x.name), x.args, e,
                                        var_map)
    ELSE IF isinstance(x, "Predicate") /\ x.name = "lang"
    THEN IF Len(x.args) # 1
         THEN Converted(Raise("PrologError: lang filter expression: one argument expected."),
                        var_map)
         ELSE LET arg == prolog_to_filter_expression(x.args[1], e, var_map)
              IN  IF IsError(arg.node) THEN arg
                  ELSE Converted([t |-> "Builtin_LANG", arg |-> arg.node,
                                  _vars |-> VarSet(arg.var_map)],
                                 arg.var_map)
    ELSE pl_to_rdf(x, e, var_map)

\* pe.prolog_get_int(term, env); a NumberLiteral holds fifths
prolog_get_int(term, e) ==
    IF isinstance(prolog_eval(term, e), "NumberLiteral")
    THEN [t |-> "int", i |-> prolog_eval(term, e).f \div 5]
    ELSE Raise("PrologRuntimeError: Integer expected")

\* the locals of _rdf_exec before the scan (lines 344-352)
ScanStart ==
    [distinct |-> FALSE, triples |-> <<>>, optional_triples |-> <<>>,
     filters |-> <<>>, limit |-> 0, offset |-> 0, var_map |-> <<>>,
     err |-> None, steps |-> <<>>]

Failed(st, error) == [st EXCEPT !.err = error]

\* (history) the loop has consumed width positions from position i on, as
\* a directive of that kind or as a triple
Step(i, kind, width) == [at |-> i, kind |-> kind, width |-> width]

\* (pl_to_rdf(s), pl_to_rdf(p), pl_to_rdf(o)), converted left to right
Triple(s, p, o, e, var_map) ==
    LET a == pl_to_rdf(s, e, var_map)
        b == pl_to_rdf(p, e, a.var_map)
        c == pl_to_rdf(o, e, b.var_map)
    IN  [triple  |-> <<a.node, b.node, c.node>>,
         var_map |-> c.var_map,
         err     |-> IF IsError(a.node) THEN a.node
                     ELSE IF IsError(b.node) THEN b.node
                     ELSE IF IsError(c.node) THEN c.node
                     ELSE None]

RECURSIVE AndTreeRight(_, _, _)
\* (mutant) the arguments folded from the right
AndTreeRight(pl_expr, s_args, i) ==
    IF i > Len(s_args) THEN pl_expr
    ELSE Predicate("and", <<pl_expr, AndTreeRight(s_args[i], s_args, i + 1)>>)

RECURSIVE AndTree(_, _, _)
\* lines 387-389: pl_expr = Predicate('and', [pl_expr, a]) for a in s_args[1:]
AndTree(pl_expr, s_args, i) ==
    IF i > Len(s_args) THEN pl_expr
    ELSE AndTree(Predicate("and", <<pl_expr, s_args[i]>>), s_args, i + 1)

\* (mutant) a triple refused unless a position is left over after it
NotEnoughOrExact(args, i) == i > Len(args) - 3

\* line 427: arg_idx > len(args)-3, for positions counted from 1
NotEnough(args, i) == i > Len(args) - 2

RECURSIVE Scan(_, _, _, _)
\* the while loop of lines 354-439 from position i on (positions count
\* from 1 here); st.err is the error that ended it, if any
Scan(args, i, st, e) ==
    IF i > Len(args) THEN st
    ELSE IF isinstance(args[i], "Predicate") /\ args[i].name = "optional"
    THEN IF Len(args[i].args) # 3
         THEN Failed(st, Raise("PrologRuntimeError: rdf: optional: triple arg expected"))
         ELSE LET tr == Triple(args[i].args[1], args[i].args[2],
                               args[i].args[3], e, st.var_map)
              IN  IF IsError(tr.err) THEN Failed(st, tr.err)
                  ELSE Scan(args, i + 1,
                            [st EXCEPT !.optional_triples = Append(@, tr.triple),
                                       !.var_map = tr.var_map,
                                       !.steps = Append(@, Step(i, "optional", 1))],
                            e)
    ELSE IF isinstance(args[i], "Predicate") /\ args[i].name = "filter"
    THEN IF args[i].args = <<>>
         THEN Failed(st, Raise("IndexError"))
         ELSE LET f == prolog_to_filter_expression(
                          AndTree(args[i].args[1], args[i].args, 2),
                          e, st.var_map)
              IN  IF IsError(f.node) THEN Failed(st, f.node)
                  ELSE Scan(args, i + 1,
                            [st EXCEPT !.filters = Append(@, f.node),
                                       !.var_map = f.var_map,
                                       !.steps = Append(@, Step(i, "filter", 1))],
                            e)
    ELSE IF isinstance(args[i], "Predicate") /\ args[i].name = "distinct"
    THEN IF Len(args[i].args) # 0
         THEN Failed(st, Raise("PrologRuntimeError: rdf: distinct: unexpected arguments."))
         ELSE Scan(args, i + 1,
                   [st EXCEPT !.distinct = TRUE,
                              !.steps = Append(@, Step(i, "distinct", 1))], e)
    ELSE IF isinstance(args[i], "Predicate") /\ args[i].name = "limit"
    THEN IF Len(args[i].args) # 1
         THEN Failed(st, Raise("PrologRuntimeError: rdf: limit: one argument expected."))
         ELSE IF IsError(prolog_get_int(args[i].args[1], e))
         THEN Failed(st, prolog_get_int(args[i].args[1], e))
         ELSE Scan(args, i + 1,
                   [st EXCEPT !.limit = prolog_get_int(args[i].args[1], e).i,
                              !.steps = Append(@, Step(i, "limit", 1))],
                   e)
    ELSE IF isinstance(args[i], "Predicate") /\ args[i].name = "offset"
    THEN IF Len(args[i].args) # 1
         THEN Failed(st, Raise("PrologRuntimeError: rdf: offset: one argument expected."))
         ELSE IF IsError(prolog_get_int(args[i].args[1], e))
         THEN Failed(st, prolog_get_int(args[i].args[1], e))
         ELSE Scan(args, i + 1,
                   [st EXCEPT !.offset = prolog_get_int(args[i].args[1], e).i,
                              !.steps = Append(@, Step(i, "offset", 1))],
                   e)
    ELSE IF NotEnough(args, i)
    THEN Failed(st, Raise("PrologRuntimeError: rdf: not enough arguments for triple"))
    ELSE LET tr == Triple(args[i], args[i + 1], args[i + 2], e, st.var_map)
         IN  IF IsError(tr.err) THEN Failed(st, tr.err)
             ELSE Scan(args, i + 3,
                       [st EXCEPT !.triples = Append(@, tr.triple),
                                  !.var_map = tr.var_map,
                                  !.steps = Append(@, Step(i, "triple", 3))],
                       e)

\* (mutant) the check of lines 445-446 left out
TriplesUnchecked(triples) == None

\* lines 445-446
TriplesChecked(triples) ==
    IF Len(triples) = 0
    THEN Raise("PrologRuntimeError: rdf: at least one non-optional triple expected")
    ELSE None

RECURSIVE LeftJoined(_, _, _, _)
\* lines 453-455
LeftJoined(p, optional_triples, i, vs) ==
    IF i > Len(optional_triples) THEN p
    ELSE LeftJoined(LeftJoin(p, BGP(<<optional_triples[i]>>, vs), TrueFilter),
                    optional_triples, i + 1, vs)

RECURSIVE Filtered(_, _, _, _)
\* lines 457-458
Filtered(p, filters, i, vs) ==
    IF i > Len(filters) THEN p
    ELSE Filtered(Filter(p, filters[i], vs), filters, i + 1, vs)

\* (mutant) a slice layer as soon as a limit or an offset is given
SlicedOnOffset(p, limit, offset, vs) ==
    IF limit > 0 \/ offset > 0 THEN Slice(offset, limit, p, vs) ELSE p

\* lines 460-461
Sliced(p, limit, offset, vs) ==
    IF limit > 0 THEN Slice(offset, limit, p, vs) ELSE p

\* lines 463-464
Distincted(p, distinct, vs) ==
    IF distinct THEN Distinct(p, vs) ELSE p

\* lines 451-464: the tree under the SelectQuery
Tree(st) ==
    Distincted(
        Sliced(
            Filtered(
                LeftJoined(BGP(st.triples, VarSet(st.var_map)),
                           st.optional_triples, 1, VarSet(st.var_map)),
                st.filters, 1, VarSet(st.var_map)),
            st.limit, st.offset, VarSet(st.var_map)),
        st.distinct, VarSet(st.var_map))

\* var_map.values(): the variables in the order the dict yields them
Values(var_map) ==
    { [i \in 1..Len(var_map) |-> RdfVariable(var_map[f[i]])] :
        f \in {g \in [1..Len(var_map) -> 1..Len(var_map)] :
                 \A i, j \in 1..Len(var_map) : g[i] = g[j] => i = j} }

RECURSIVE RequiredTriples(_)
\* the triples of the innermost BGP of a tree
RequiredTriples(p) ==
    IF p.t = "BGP" THEN p.triples
    ELSE IF p.t = "LeftJoin" THEN RequiredTriples(p.p1)
    ELSE RequiredTriples(p.p)

\* kb.query_algebra(algebra): the solutions the store answers with, each
\* mapping the variables it binds to nodes.  The model's store answers with
\* no solution, with one that binds every projected variable, or with that
\* one and a second that binds the variables of the required triples only
\* (when no optional triple matched).  All variables are projected, so a
\* solution does not occur twice.
Solution(names, node) == [n \in names |-> node]
query_algebra(store, algebra) ==
    LET names    == {algebra.PV[i].value : i \in 1..Len(algebra.PV)}
        required == {n \in names :
                       \E i \in 1..Len(RequiredTriples(algebra.p)) :
                       \E j \in 1..3 :
                          RequiredTriples(algebra.p)[i][j] = RdfVariable(n)}
    IN  { <<>>, <<Solution(names, PlainLiteral("a"))>> } \cup
        ( IF names = {} THEN {}
          ELSE { <<Solution(names, PlainLiteral("a")),
                   Solution(required, DecimalLiteral(10))>> } )

\* the variables bound by some solution
Labels(result) == UNION {DOMAIN result[i] : i \in 1..Len(result)}

RECURSIVE Column(_, _, _)
\* the decoded values of v over the solutions from i on, in solution order
Column(result, v, i) ==
    IF i > Len(result) THEN <<>>
    ELSE (IF v \in DOMAIN result[i] THEN <<rdf_to_pl(result[i][v])>>
          ELSE <<>>) \o Column(result, v, i + 1)

\* (mutant) a variable that is bound already keeps its binding
ListsKeepBound(e, result) ==
    [v \in DOMAIN e \cup Labels(result) |->
        IF v \in DOMAIN e THEN e[v]
        ELSE ListLiteral(Column(result, v, 1))]

\* lines 479-490: g.env after rdf_lists has appended every value
Lists(e, result) ==
    [v \in DOMAIN e \cup Labels(result) |->
        IF v \in Labels(result)
        THEN ListLiteral((IF v \in DOMAIN e THEN e[v].l ELSE <<>>)
                         \o Column(result, v, 1))
        ELSE e[v]]

\* (mutant) a solution that binds no variable gives no row
RowsOfBound(result) ==
    SelectSeq([i \in 1..Len(result) |->
                 [v \in DOMAIN result[i] |-> rdf_to_pl(result[i][v])]],
              LAMBDA row : DOMAIN row # {})

\* lines 498-514: res_bindings
Rows(result) ==
    LET res_bindings ==
            [i \in 1..Len(result) |->
                [v \in DOMAIN result[i] |-> rdf_to_pl(result[i][v])]]
    IN  IF Len(res_bindings) = 0 /\ Len(result) > 0
        THEN Append(res_bindings, EmptyEnv)
        ELSE res_bindings

\* what a call returned or raised, g.env after it, the query it sent and
\* the solutions the store answered with
RdfOutcome(r, e, sent, result) ==
    [ret |-> r, env |-> e, dispatched |-> sent, answer |-> result]

\* lines 472-518: what the call makes of the solutions
Consumed(result, e, generate_lists, algebra) ==
    IF Len(result) = 0
    THEN RdfOutcome(PyBool(FALSE), e, <<algebra>>, result)
    ELSE IF generate_lists
    THEN IF \E v \in Labels(result) \cap DOMAIN e :
               ~isinstance(e[v], "ListLiteral")
         THEN RdfOutcome(Raise("AttributeError"), e, <<algebra>>, result)
         ELSE RdfOutcome(PyBool(TRUE), Lists(e, result), <<algebra>>, result)
    ELSE RdfOutcome(Solutions(Rows(result)), e, <<algebra>>, result)

\* _rdf_exec(g, pe, generate_lists): the outcomes of one call
_rdf_exec(store, args, e, generate_lists) ==
    IF IsError(Scan(args, 1, ScanStart, e).err)
    THEN {RdfOutcome(Scan(args, 1, ScanStart, e).err, e, <<>>, <<>>)}
    ELSE IF IsError(TriplesChecked(Scan(args, 1, ScanStart, e).triples))
    THEN {RdfOutcome(TriplesChecked(Scan(args, 1, ScanStart, e).triples),
                     e, <<>>, <<>>)}
    ELSE LET st == Scan(args, 1, ScanStart, e)
         IN  UNION {
               { Consumed(result, e, generate_lists,
                          SelectQuery(Tree(st), var_list, VarSet(st.var_map))) :
                   result \in query_algebra(store,
                          SelectQuery(Tree(st), var_list, VarSet(st.var_map))) }
               : var_list \in Values(st.var_map) }

-----------------------------------------------------------------------------
(* SpecRdf: one rdf / rdf_lists goal, resolved against the store *)

\* the items of a goal at most
MaxItems == 4

\* required triples
T1   == <<StringLiteral(ALICE), StringLiteral(USER_PROP_PREFIX("topic")),
          Variable("X")>>
T2   == <<Variable("X"), StringLiteral(USER_PROP_PREFIX("mood")), V1>>
\* directives
OPT  == <<Predicate("optional",
             <<Variable("X"), Constant("wde:Q1"), Variable("Y")>>)>>
FILT == <<Predicate("filter",
             <<Predicate(">", <<Variable("X"), NumberLiteral(25)>>)>>)>>
DIST == <<Constant("distinct")>>
LIM2 == <<Predicate("limit", <<NumberLiteral(10)>>)>>
LIM0 == <<Predicate("limit", <<NumberLiteral(0)>>)>>
OFF1 == <<Predicate("offset", <<NumberLiteral(5)>>)>>

RdfItems == {T1, T2, OPT, FILT, DIST, LIM2, LIM0, OFF1}
RdfGoals == SeqsUpTo(RdfItems, MaxItems)

RECURSIVE Flatten(_)
\* pred.args: the terms of the items, in order
Flatten(items) ==
    IF items = <<>> THEN <<>> ELSE Head(items) \o Flatten(Tail(items))

\* rdf(...) when generate_lists is false, rdf_lists(...) when it is true;
\* the goal is resolved until it has sent a query
RdfCall(generate_lists) ==
    /\ dispatched = <<>>
    /\ \E x \in _rdf_exec(kb, Flatten(goal), env, generate_lists) :
          /\ ret' = x.ret
          /\ env' = x.env
          /\ dispatched' = dispatched \o x.dispatched
          /\ op' = [name |-> IF generate_lists THEN "rdf_lists" ELSE "rdf",
                    answer |-> x.answer, before |-> env]
    /\ UNCHANGED <<kb, emptyListFalse, action_buffer, hist, hlog, execCalls,
                   nexec, goal>>

builtin_rdf       == RdfCall(FALSE)
builtin_rdf_lists == RdfCall(TRUE)

NextRdf ==
    \/ builtin_rdf
    \/ builtin_rdf_lists

InitRdf ==
    /\ InitCommon
    /\ emptyListFalse = FALSE
    /\ kb = {CurinQuad}
    /\ goal \in RdfGoals

SpecRdf == InitRdf /\ [][NextRdf]_vars

\* SpecScan: goals that also hold directives of another shape and single
\* terms, so that triples can start anywhere
MaxScan == 3

NOLIM   == <<Constant("limit")>>
NOFILT  == <<Constant("filter")>>
BADDIST == <<Predicate("distinct", <<V1>>)>>
BADOPT  == <<Predicate("optional", <<Variable("X"), V1>>)>>
BADOFF  == <<Predicate("offset", <<NumberLiteral(5), NumberLiteral(5)>>)>>
LONE    == <<V1>>

ScanItems == {T1, OPT, FILT, DIST, LIM2, OFF1,
              NOLIM, NOFILT, BADDIST, BADOPT, BADOFF, LONE}

InitScan ==
    /\ InitCommon
    /\ emptyListFalse = FALSE
    /\ kb = {CurinQuad}
    /\ goal \in SeqsUpTo(ScanItems, MaxScan)

SpecScan == InitScan /\ [][NextRdf]_vars

\* SpecUse: what rdf and rdf_lists make of the store's answer, for goals
\* with and without variables, called with X unbound or bound to []
MaxUse == 2

\* a required triple without a variable
T0 == <<StringLiteral(ALICE), StringLiteral(USER_PROP_PREFIX("topic")), V1>>

UseItems == {T0, T1, OPT, DIST}
UseEnvs  == {EmptyEnv, Bind(EmptyEnv, "X", ListLiteral(<<>>)),
             Bind(EmptyEnv, "X", ListLiteral(<<V1>>)),
             Bind(EmptyEnv, "Z", V1)}

InitUse ==
    /\ kb = {CurinQuad}
    /\ emptyListFalse \in BOOLEAN
    /\ env \in UseEnvs
    /\ action_buffer = <<>>
    /\ op = [name |-> "init"]
    /\ ret = None
    /\ hist = NoHist
    /\ hlog = <<>>
    /\ execCalls = <<>>
    /\ nexec = 0
    /\ dispatched = <<>>
    /\ goal \in SeqsUpTo(UseItems, MaxUse)

SpecUse == InitUse /\ [][NextRdf]_vars

-----------------------------------------------------------------------------
(* runtime.py: builtin_sparql_query *)

\* pe.prolog_get_string(term, env)
prolog_get_string(term, e) ==
    IF isinstance(prolog_eval(term, e), "StringLiteral")
    THEN prolog_eval(term, e)
    ELSE Raise("PrologRuntimeError: String literal expected")

\* pe.prolog_get_variable(term, env)
prolog_get_variable(term, e) ==
    IF isinstance(term, "Variable")
    THEN term
    ELSE Raise("PrologRuntimeError: Variable expected")

\* an answer of kb.query(text): the variable labels the store reports, in
\* the order of their label index, and one row of nodes per solution
Answer(labels, rows) == [labels |-> labels, rows |-> rows]

NoRows  == Answer(<<"a">>, <<>>)
OneVar  == Answer(<<"a">>, << <<PlainLiteral("a")>>, <<DecimalLiteral(10)>> >>)
TwoVars == Answer(<<"a", "b">>, << <<PlainLiteral("a"), DecimalLiteral(10)>>,
                                   <<DecimalLiteral(10), PlainLiteral("a")>> >>)

query(store, text) == {NoRows, OneVar, TwoVars}

\* res_map[res_vars[k]] of lines 584-599, k counted from 1
res_map(result, k) ==
    [i \in 1..Len(result.rows) |-> rdf_to_pl(result.rows[i][k])]

\* the loop of lines 606-618 from output argument k on; g.env is updated
\* in place, so a failure leaves the bindings made before it
RECURSIVE ApplyBindings(_, _, _, _)
ApplyBindings(result, outs, k, e) ==
    IF k > Len(outs) THEN [ret |-> PyBool(TRUE), env |-> e]
    ELSE IF k > Len(result.labels)
    THEN [ret |-> Raise("KeyError"), env |-> e]
    ELSE IF IsError(prolog_get_variable(outs[k], e))
    THEN [ret |-> prolog_get_variable(outs[k], e), env |-> e]
    ELSE ApplyBindings(result, outs, k + 1,
                       Bind(e, prolog_get_variable(outs[k], e).name,
                            ListLiteral(res_map(result, k))))

\* the outcomes of sparql_query(args) in environment e
SparqlOutcomes(store, args, e) ==
    IF Len(args) < 1
    THEN {[ret |-> Raise("PrologRuntimeError: sparql_query: at least 1 argument expected."),
           env |-> e, answer |-> NoRows]}
    ELSE IF IsError(prolog_get_string(args[1], e))
    THEN {[ret |-> prolog_get_string(args[1], e), env |-> e, answer |-> NoRows]}
    ELSE { IF Len(result.rows) = 0
           THEN [ret |-> PyBool(FALSE), env |-> e, answer |-> result]
           ELSE [ret    |-> ApplyBindings(result, Tail(args), 1, e).ret,
                 env    |-> ApplyBindings(result, Tail(args), 1, e).env,
                 answer |-> result]
           : result \in query(store, prolog_get_string(args[1], e).s) }

\* SpecSparql: one sparql_query call; goal holds one argument per item
MaxArgs == 3

SparqlArgs == { <<StringLiteral("q")>>, <<Variable("X")>>, <<Variable("Y")>>,
                <<NumberLiteral(5)>> }

builtin_sparql_query ==
    /\ op.name = "init"
    /\ \E x \in SparqlOutcomes(kb, Flatten(goal), env) :
          /\ ret' = x.ret
          /\ env' = x.env
          /\ op' = [name |-> "sparql_query", answer |-> x.answer]
    /\ UNCHANGED <<kb, emptyListFalse, action_buffer, hist, hlog, execCalls,
                   nexec, dispatched, goal>>

NextSparql == builtin_sparql_query

InitSparql ==
    /\ InitCommon
    /\ emptyListFalse = FALSE
    /\ kb = {CurinQuad}
    /\ goal \in SeqsUpTo(SparqlArgs, MaxArgs)

\* SpecFilter: rdf and rdf_lists over goals with filters of one, two and
\* three arguments
MaxFilt == 3

GT == Predicate(">", <<Variable("X"), NumberLiteral(25)>>)
LT == Predicate("<", <<Variable("X"), NumberLiteral(50)>>)
EQ == Predicate("=", <<Variable("Y"), NumberLiteral(5)>>)

FILT2 == <<Predicate("filter", <<GT, LT>>)>>
FILT3 == <<Predicate("filter", <<GT, LT, EQ>>)>>
FILT4 == <<Predicate("filter", <<EQ, GT, Predicate("or", <<LT, EQ>>), LT>>)>>

FilterItems == {T1, FILT, FILT2, FILT3, FILT4}

InitFilter ==
    /\ InitCommon
    /\ emptyListFalse = FALSE
    /\ kb = {CurinQuad}
    /\ goal \in SeqsUpTo(FilterItems, MaxFilt)

SpecFilter == InitFilter /\ [][NextRdf]_vars

SpecSparql == InitSparql /\ [][NextSparql]_vars

-----------------------------------------------------------------------------
(* runtime.py: builtin_context_get, and the context store over several    *)
(* users and keys                                                          *)

\* context_get(+Name, -Value): the outcomes for the values read_context
\* can return
builtin_context_get(store, args, e) ==
    IF Len(args) # 2
    THEN {[ret |-> Raise("PrologRuntimeError: context_get: 2 args expected."),
           env |-> e]}
    ELSE IF IsError(prolog_get_variable(args[2], e))
    THEN {[ret |-> prolog_get_variable(args[2], e), env |-> e]}
    ELSE { IF ~Truthy(v)
           THEN [ret |-> PyBool(FALSE), env |-> e]
           ELSE [ret |-> PyBool(TRUE),
                 env |-> Bind(e, prolog_get_variable(args[2], e).name, v)]
           : v \in read_context(store, args[1].name) }

ContextGet(args) ==
    /\ \E x \in builtin_context_get(kb, args, env) :
          /\ ret' = x.ret
          /\ env' = x.env
    /\ op' = [name |-> "context_get", args |-> args]
    /\ UNCHANGED <<kb, emptyListFalse, action_buffer, hist, hlog, execCalls,
                   nexec, dispatched, goal>>

\* a second user, who is never the current one
BOB == "http://ai.zamia.org/kb/user/bob"

StoreKeys == {"topic", "mood"}

\* context entries the store can hold from earlier turns and sessions
OldEntries ==
    { Quad(ALICE, USER_PROP_PREFIX("topic"), pl_literal_to_rdf(V2),
           CONTEXT_GRAPH_NAME),
      Quad(ALICE, USER_PROP_PREFIX("topic"),
           pl_literal_to_rdf(ListLiteral(<<V3>>)), CONTEXT_GRAPH_NAME),
      Quad(ALICE, USER_PROP_PREFIX("mood"), pl_literal_to_rdf(V3),
           CONTEXT_GRAPH_NAME),
      Quad(DEFAULT_USER, USER_PROP_PREFIX("topic"),
           pl_literal_to_rdf(ListLiteral(<<V3>>)), CONTEXT_GRAPH_NAME),
      Quad(BOB, USER_PROP_PREFIX("topic"), pl_literal_to_rdf(V1),
           CONTEXT_GRAPH_NAME) }

InitStoreWith(users) ==
    /\ \E c \in users, d \in SUBSET OldEntries : kb = c \cup d
    /\ emptyListFalse \in BOOLEAN
    /\ env = EmptyEnv
    /\ action_buffer = <<>>
    /\ op = [name |-> "init"]
    /\ ret = None
    /\ hist = NoHist
    /\ hlog = <<>>
    /\ execCalls = <<>>
    /\ nexec = 0
    /\ dispatched = <<>>
    /\ goal = <<>>

\* SpecStore: writes and reads of the current user alice
InitStore == InitStoreWith({{CurinQuad}})

NextStore ==
    \/ \E key \in StoreKeys, value \in WriteValues : CtxWrite(key, value)
    \/ \E key \in StoreKeys : CtxRead(key)

SpecStore == InitStore /\ [][NextStore]_vars

\* SpecRead: reads and context_get with and without a current user
GetArgs ==
    { <<Constant(key), out>> : key \in StoreKeys, out \in {Variable("X"), V1} }
    \cup { <<Constant("topic")>> }

InitRead == InitStoreWith({{}, {CurinQuad}})

NextRead ==
    \/ \E key \in StoreKeys : CtxRead(key)
    \/ \E args \in GetArgs : ContextGet(args)

SpecRead == InitRead /\ [][NextRead]_vars

-----------------------------------------------------------------------------
(* pl2rdf.py: prolog_to_filter_expression called on one expression *)

\* SpecLower: goal holds the expression; LowerFilter leaves the lowered
\* node, or the error raised, in ret
MaxOperands == 3

FilterOps == RelationalOps \cup {"and", "or", "lang", "foo"}
Leaves    == {Variable("X"), NumberLiteral(5)}
\* operands that are expressions themselves: well-formed, with an operand
\* missing (also one level further down), not an expression of the builder
Nested ==
    { Predicate("<", <<Variable("X"), NumberLiteral(5)>>),
      Predicate("=", <<Variable("X")>>),
      Predicate("and", <<Predicate("lang", <<>>), Variable("X")>>),
      Predicate("foo", <<Variable("X")>>) }

FilterExpressions ==
    { Predicate(o, args) :
        o \in FilterOps, args \in SeqsUpTo(Leaves \cup Nested, MaxOperands) }

LowerFilter ==
    /\ op.name = "init"
    /\ ret' = prolog_to_filter_expression(goal[1][1], env, <<>>).node
    /\ op' = [name |-> "prolog_to_filter_expression"]
    /\ UNCHANGED <<kb, emptyListFalse, env, action_buffer, hist, hlog,
                   execCalls, nexec, dispatched, goal>>

NextLower == LowerFilter

InitLower ==
    /\ InitCommon
    /\ emptyListFalse = FALSE
    /\ kb = {CurinQuad}
    /\ \E x \in FilterExpressions : goal = << <<x>> >>

SpecLower == InitLower /\ [][NextLower]_vars

-----------------------------------------------------------------------------
(* pl2rdf.py: a term encoded and the node decoded again *)

\* SpecCodec: goal holds the term; Encode leaves the node in ret, Decode
\* the term read back from it
MaxLen == 2

CodecAtoms ==
    { NumberLiteral(0), NumberLiteral(7), LongFloat(3),
      StringLiteral("hello"), StringLiteral("http://www.wikidata.org/entity/Q1"),
      Constant("foo"), Constant("wde:Q1") }

\* lists of atoms and of lists of one atom
CodecLists ==
    { ListLiteral(l) :
        l \in SeqsUpTo(CodecAtoms \cup {ListLiteral(<<>>), ListLiteral(<<LongFloat(3)>>),
                                        ListLiteral(<<Constant("wde:Q1")>>)}, MaxLen) }

CodecTerms == CodecAtoms \cup CodecLists

Encode ==
    /\ op.name = "init"
    /\ ret' = pl_literal_to_rdf(goal[1][1])
    /\ op' = [name |-> "encode"]
    /\ UNCHANGED <<kb, emptyListFalse, env, action_buffer, hist, hlog,
                   execCalls, nexec, dispatched, goal>>

Decode ==
    /\ op.name = "encode"
    /\ ~IsError(ret)
    /\ ret' = rdf_to_pl(ret)
    /\ op' = [name |-> "decode"]
    /\ UNCHANGED <<kb, emptyListFalse, env, action_buffer, hist, hlog,
                   execCalls, nexec, dispatched, goal>>

NextCodec ==
    \/ Encode
    \/ Decode

InitCodec ==
    /\ InitCommon
    /\ emptyListFalse = FALSE
    /\ kb = {CurinQuad}
    /\ \E term \in CodecTerms : goal = << <<term>> >>

SpecCodec == InitCodec /\ [][NextCodec]_vars

-----------------------------------------------------------------------------
(* Claims about the context store *)

MostRecentFirst(pushed) ==
    [i \in 1..Len(pushed) |-> pushed[Len(pushed) + 1 - i]]

\* what the store holds for the current user and key, decoded
UserEntries(key) ==
    {rdf_to_pl(q.o) : q \in filter_quads(kb, ALICE, USER_PROP_PREFIX(key))}

\* C4: after any sequence of pushes on a key, the current user's stored
\* sequence has at most 6 entries and is the pushed terms, most recent
\* first, followed by the contents before the pushes, cut to the first 6.
C4_PushKeepsSixMostRecent ==
    \A key \in CtxKeys :
        hist[key].pushed # <<>> =>
            /\ Cardinality(filter_quads(kb, ALICE, USER_PROP_PREFIX(key))) = 1
            /\ \A st \in UserEntries(key) :
                  /\ isinstance(st, "ListLiteral")
                  /\ Len(st.l) <= 6
                  /\ st.l = Take(MostRecentFirst(hist[key].pushed)
                                    \o hist[key].prior, 6)

\* seven pushes onto an empty key: v1 first, then six times v2; the store
\* holds the six v2 and v1 is gone
C4_Witness ==
    /\ hist["topic"].prior = <<>>
    /\ hist["topic"].pushed = <<V1, V2, V2, V2, V2, V2, V2>>
    /\ UserEntries("topic") = {ListLiteral(<<V2, V2, V2, V2, V2, V2>>)}

-----------------------------------------------------------------------------
(* Claims about context_score *)

ScoreIn(o)  == IF o.score_in = <<>> THEN 0 ELSE o.score_in[1]
MinScore(o) == IF o.min_arg = <<>> THEN 0 ELSE o.min_arg[1]

\* the entries of a stack that read_context returned; none when it is None
StackEntries(stack) == IF stack = None THEN <<>> ELSE stack.l

\* the candidate's contribution: points / i at its first position i, else 0
Contribution(l, cand, points) ==
    IF \E i \in 1..Len(l) : l[i] = cand
    THEN LET first == CHOOSE i \in 1..Len(l) :
                         l[i] = cand /\ \A j \in 1..Len(l) : l[j] = cand => i <= j
         IN  points \div first
    ELSE 0

\* C7: bound mode.  score_out = score_in + contribution; the call fails iff
\* score_out < min_points, and otherwise succeeds binding the score
\* variable to score_out.
C7_BoundScore ==
    (op.name = "context_score" /\ ~isinstance(op.arg1, "Variable")) =>
        \A stack \in read_context(kb, op.key) :
            (stack = None \/ isinstance(stack, "ListLiteral")) =>
                LET out == ScoreIn(op) + Contribution(StackEntries(stack),
                                             op.arg1, op.points)
                IN  IF out < MinScore(op)
                    THEN ret = PyBool(FALSE)
                    ELSE /\ ret = PyBool(TRUE)
                         /\ env[SCOREV] = NumberLiteral(out)

\* stack [v1,v2,v3], points 12.0, candidate v2: accepted with score 6.0
C7_Witness ==
    /\ op.name = "context_score" /\ op.arg1 = V2 /\ op.points = 60
    /\ op.score_in = <<>> /\ op.min_arg = <<>>
    /\ read_context(kb, "topic") = {ListLiteral(<<V1, V2, V3>>)}
    /\ ret = PyBool(TRUE)
    /\ env[SCOREV] = NumberLiteral(30)

\* the stack positions whose score reaches the minimum
Surviving(l, o) ==
    {i \in 1..Len(l) : ScoreIn(o) + (o.points \div i) >= MinScore(o)}

\* sols is one solution per surviving position of l, in stack order
OnePerPosition(sols, l, o) ==
    /\ Len(sols) = Cardinality(Surviving(l, o))
    /\ \A j \in 1..Len(sols) :
          \E i \in Surviving(l, o) :
              /\ Cardinality({h \in Surviving(l, o) : h < i}) = j - 1
              /\ sols[j][o.arg1.name] = l[i]
              /\ sols[j][SCOREV] = NumberLiteral(ScoreIn(o) + (o.points \div i))

\* sols is the result for a stack without entries: the empty sequence with
\* score_in if that reaches the minimum, nothing otherwise
EmptyStackResult(sols, o) ==
    IF ScoreIn(o) >= MinScore(o)
    THEN /\ Len(sols) = 1
         /\ sols[1][o.arg1.name] = ListLiteral(<<>>)
         /\ sols[1][SCOREV] = NumberLiteral(ScoreIn(o))
    ELSE sols = <<>>

UnboundCall == op.name = "context_score" /\ isinstance(op.arg1, "Variable")

\* C8 as claimed: unbound mode yields one solution per surviving stack
\* position, in stack order; an empty or missing stack yields the single
\* solution (empty sequence, score_in) if score_in >= min_points, else none.
C8_AsClaimed ==
    UnboundCall =>
        \A stack \in read_context(kb, op.key) :
            (stack = None \/ isinstance(stack, "ListLiteral")) =>
                /\ ret.t = "solutions"
                /\ IF StackEntries(stack) = <<>>
                   THEN EmptyStackResult(ret.l, op)
                   ELSE OnePerPosition(ret.l, stack.l, op)

\* C8 amended: the single (empty sequence, score_in) solution is what a
\* missing stack yields; a stored stack without entries yields it only if
\* an empty ListLiteral is false, and no solution at all if it is true.
C8_UnboundScore ==
    UnboundCall =>
        \A stack \in read_context(kb, op.key) :
            (stack = None \/ isinstance(stack, "ListLiteral")) =>
                /\ ret.t = "solutions"
                /\ IF stack = None \/ (stack.l = <<>> /\ emptyListFalse)
                   THEN EmptyStackResult(ret.l, op)
                   ELSE OnePerPosition(ret.l, stack.l, op)

\* stack [v1,v2,v3], points 12.0: three solutions scored 12.0, 6.0, 4.0
C8_Witness ==
    /\ UnboundCall /\ op.points = 60
    /\ op.score_in = <<>> /\ op.min_arg = <<>>
    /\ read_context(kb, "topic") = {ListLiteral(<<V1, V2, V3>>)}
    /\ ret = Solutions(<<
          ("X" :> V1) @@ (SCOREV :> NumberLiteral(60)),
          ("X" :> V2) @@ (SCOREV :> NumberLiteral(30)),
          ("X" :> V3) @@ (SCOREV :> NumberLiteral(20)) >>)

-----------------------------------------------------------------------------
(* Claims about the action buffer *)

\* the in-progress list of environment e, empty when there is none
InProgressList(e) == IF InProgress(e) THEN e[ACTION_VARNAME] ELSE <<>>

\* C1: a deferred builtin called during resolution succeeds and appends the
\* one sub-action [name, args...] to the in-progress list (created if
\* absent); the store, with it every (user, key) entry, and the committed
\* buffer stay as they are.
C1_DeferredOnlyQueues ==
    [][ op'.name = "deferred" =>
          /\ kb' = kb
          /\ action_buffer' = action_buffer
          /\ ret' = PyBool(TRUE)
          /\ InProgress(env')
          /\ env'[ACTION_VARNAME] =
                Append(InProgressList(env),
                       <<Constant(op'.builtin)>> \o op'.args)
      ]_vars

\* context_set(topic, v1) was called second in its action and is queued;
\* the store holds no topic entry of the current user
C1_Witness ==
    /\ op.name = "deferred" /\ op.builtin = "context_set"
    /\ InProgress(env) /\ Len(env[ACTION_VARNAME]) = 2
    /\ env[ACTION_VARNAME][2] = <<Constant("context_set"), TOPIC, V1>>
    /\ filter_quads(kb, ALICE, USER_PROP_PREFIX("topic")) = {}

\* how often the handler of sub-action idx of record rec was invoked
Invocations(rec, idx) ==
    Cardinality({i \in 1..Len(hlog) : hlog[i].rec = rec /\ hlog[i].idx = idx})

\* whether a sub-action names a registered deferred builtin
Recognized(a) ==
    /\ a # <<>>
    /\ isinstance(a[1], "Predicate")
    /\ a[1].name \in {"context_set", "context_push", "rdf_assert"}

MaxScoreOf(buf) ==
    CHOOSE m \in {buf[i].score : i \in 1..Len(buf)} :
        \A i \in 1..Len(buf) : buf[i].score <= m

\* C3: get_actions() returns exactly the committed records whose score is
\* the maximum of the buffer, ties included, in commit order; the result is
\* empty iff the buffer is.
C3_AsClaimed ==
    (op.name = "get_actions" /\ op.highscore_only) =>
        /\ ret.l = <<>> <=> action_buffer = <<>>
        /\ action_buffer # <<>> =>
              ret.l = SelectSeq(action_buffer,
                        LAMBDA ab : ab.score = MaxScoreOf(action_buffer))

\* C5: eoa without an in-progress action list raises and leaves the
\* committed buffer as it is.
C5_EoaWithoutAction ==
    [][ (op'.name = "eoa" /\ ~InProgress(env)) =>
          /\ IsError(ret')
          /\ ret'.error = "PrologRuntimeError: eoa: no action defined."
          /\ action_buffer' = action_buffer
          /\ ~InProgress(env')
      ]_vars

\* eoa failed with nothing in progress, after an earlier eoa committed
C5_Witness ==
    /\ op.name = "eoa" /\ ~op.in_progress
    /\ IsError(ret)
    /\ Len(action_buffer) = 1
    /\ ~InProgress(env)

\* C6: queueing appends to the in-progress list, and a successful eoa (or
\* say_eoa) appends one record to the end of the committed buffer: the
\* sub-actions queued since the list was opened, in queue order, with the
\* given score (0 when omitted); no list is in progress afterwards and the
\* records committed before are unchanged.
C6_EoaCommitsOneRecord ==
    [][ /\ op'.name = "say" =>
              env'[ACTION_VARNAME] =
                 Append(InProgressList(env),
                        <<Constant("say"), PyStr(op'.lang), PyStr(op'.str)>>)
        /\ op'.name = "action" =>
              env'[ACTION_VARNAME] = Append(InProgressList(env), op'.args)
        /\ op'.name = "deferred" =>
              env'[ACTION_VARNAME] =
                 Append(InProgressList(env),
                        <<Constant(op'.builtin)>> \o op'.args)
        /\ (op'.name = "eoa" /\ InProgress(env)) =>
              /\ ret' = PyBool(TRUE)
              /\ ~InProgress(env')
              /\ Len(action_buffer') = Len(action_buffer) + 1
              /\ SubSeq(action_buffer', 1, Len(action_buffer)) = action_buffer
              /\ action_buffer'[Len(action_buffer')] =
                    [actions |-> env[ACTION_VARNAME],
                     score   |-> IF op'.score_arg = <<>> THEN 0
                                 ELSE op'.score_arg[1]]
        /\ op'.name = "say_eoa" =>
              /\ ret' = PyBool(TRUE)
              /\ ~InProgress(env')
              /\ Len(action_buffer') = Len(action_buffer) + 1
              /\ SubSeq(action_buffer', 1, Len(action_buffer)) = action_buffer
              /\ action_buffer'[Len(action_buffer')] =
                    [actions |-> Append(InProgressList(env),
                                        <<Constant("say"), PyStr("en"),
                                          PyStr("hello")>>),
                     score   |-> IF op'.score_arg = <<>> THEN 0
                                 ELSE op'.score_arg[1]]
      ]_vars

\* eoa without a score committed an action of two sub-actions, queued as
\* context_push then say, with score 0
C6_Witness ==
    /\ op.name = "eoa" /\ op.score_arg = <<>> /\ ret = PyBool(TRUE)
    /\ ~InProgress(env)
    /\ Len(action_buffer) = 1
    /\ action_buffer[1] =
          [actions |-> << <<Constant("context_push"), TOPIC, V2>>,
                          <<Constant("say"), PyStr("en"), PyStr("hello")>> >>,
           score |-> 0]

-----------------------------------------------------------------------------
(* Claims about the query builder *)

\* what the author wrote: the triples, and the directives of a name
RequiredItems == SelectSeq(goal, LAMBDA it : Len(it) = 3)
Directives(name) ==
    SelectSeq(goal, LAMBDA it : Len(it) = 1 /\ it[1].name = name)
\* the number given by the last directive of a name, 0 when there is none
LastGiven(name) ==
    IF Directives(name) = <<>> THEN 0
    ELSE Directives(name)[Len(Directives(name))][1].args[1].f \div 5

\* the node a term of a goal stands for when no variable is bound
NodeOf(term) ==
    IF isinstance(term, "Variable") THEN RdfVariable(term.name)
    ELSE pl_literal_to_rdf(term)
TripleOf(s, p, o) == <<NodeOf(s), NodeOf(p), NodeOf(o)>>

RECURSIVE LayersOf(_)
\* the nodes of a tree from the outermost layer down to the innermost BGP
LayersOf(p) ==
    IF p.t = "BGP" THEN <<p>>
    ELSE IF p.t = "LeftJoin" THEN <<p>> \o LayersOf(p.p1)
    ELSE <<p>> \o LayersOf(p.p)

Repeat(x, n) == [i \in 1..n |-> x]

\* the layer names the claim prescribes, outermost first
ExpectedLayers ==
    (IF Directives("distinct") # <<>> THEN <<"Distinct">> ELSE <<>>)
    \o (IF LastGiven("limit") > 0 THEN <<"Slice">> ELSE <<>>)
    \o Repeat("Filter", Len(Directives("filter")))
    \o Repeat("LeftJoin", Len(Directives("optional")))
    \o <<"BGP">>

\* layer k of a kind, counted from the innermost one of that kind
LayerOfKind(layers, kind, k) ==
    SelectSeq(layers, LAMBDA n : n.t = kind)
        [Len(SelectSeq(layers, LAMBDA n : n.t = kind)) + 1 - k]

\* a call of rdf or rdf_lists has been made on the goal
RdfCalled == op.name \in {"rdf", "rdf_lists"}

\* C9: for a goal with a required triple the call sends one query whose tree
\* is, innermost to outermost: one BGP of the required triples in scan
\* order, a LeftJoin per optional triple in scan order, a Filter per filter
\* directive in scan order, a Slice(start = offset, length = limit) iff
\* limit > 0, a Distinct iff distinct() occurred.
C9_AlgebraNesting ==
    (RdfCalled /\ RequiredItems # <<>>) =>
        /\ Len(dispatched) = 1
        /\ dispatched[1].t = "SelectQuery"
        /\ LET layers == LayersOf(dispatched[1].p)
           IN  /\ [i \in 1..Len(layers) |-> layers[i].t] = ExpectedLayers
               /\ layers[Len(layers)].triples =
                     [i \in 1..Len(RequiredItems) |->
                         TripleOf(RequiredItems[i][1], RequiredItems[i][2],
                                  RequiredItems[i][3])]
               /\ \A k \in 1..Len(Directives("optional")) :
                     /\ LayerOfKind(layers, "LeftJoin", k).p2.t = "BGP"
                     /\ LayerOfKind(layers, "LeftJoin", k).p2.triples =
                           << TripleOf(Directives("optional")[k][1].args[1],
                                       Directives("optional")[k][1].args[2],
                                       Directives("optional")[k][1].args[3]) >>
                     /\ LayerOfKind(layers, "LeftJoin", k).expr.t = "TrueFilter"
               /\ \A k \in 1..Len(Directives("filter")) :
                     /\ LayerOfKind(layers, "Filter", k).expr.t =
                           "RelationalExpression"
                     /\ LayerOfKind(layers, "Filter", k).expr.op =
                           Directives("filter")[k][1].args[1].name
                     /\ LayerOfKind(layers, "Filter", k).expr.expr =
                           NodeOf(Directives("filter")[k][1].args[1].args[1])
                     /\ LayerOfKind(layers, "Filter", k).expr.other =
                           NodeOf(Directives("filter")[k][1].args[1].args[2])
               /\ LastGiven("limit") > 0 =>
                     /\ LayerOfKind(layers, "Slice", 1).start = LastGiven("offset")
                     /\ LayerOfKind(layers, "Slice", 1).length = LastGiven("limit")

\* rdf(offset(1), filter(X > 5), alice, topic, X, limit(2)) sent the tree
\* Slice(1, 2) over Filter over BGP, without a Distinct layer
C9_Witness ==
    /\ op.name = "rdf"
    /\ goal = <<OFF1, FILT, T1, LIM2>>
    /\ Len(dispatched) = 1
    /\ dispatched[1].p.t = "Slice"
    /\ dispatched[1].p.start = 1 /\ dispatched[1].p.length = 2
    /\ dispatched[1].p.p.t = "Filter"
    /\ dispatched[1].p.p.p =
          BGP(<< <<URIRef(ALICE), URIRef(USER_PROP_PREFIX("topic")),
                   RdfVariable("X")>> >>, {RdfVariable("X")})

\* C10: a call on a goal without a required triple (directives only, or
\* no argument) raises 'at least one non-optional triple expected', sends
\* no query to the store and leaves the environment as it is.
C10_NoRequiredTriple ==
    [][ (op'.name \in {"rdf", "rdf_lists"} /\ RequiredItems = <<>>) =>
          /\ IsError(ret')
          /\ ret'.error =
                "PrologRuntimeError: rdf: at least one non-optional triple expected"
          /\ dispatched' = dispatched
          /\ dispatched' = <<>>
          /\ env' = env
      ]_vars

\* rdf_lists(optional(X, wde:Q1, Y), filter(X > 5), limit(2)) was refused
\* and nothing was sent or bound
C10_Witness ==
    /\ op.name = "rdf_lists"
    /\ goal = <<OPT, FILT, LIM2>>
    /\ IsError(ret)
    /\ dispatched = <<>>
    /\ env = EmptyEnv

\* the terms of the goal, and the scan of them as the call runs it (no
\* variable is bound when a goal of the model is called)
ScanArgs == Flatten(goal)
ScanOf   == Scan(ScanArgs, 1, ScanStart, EmptyEnv)

DirectiveNames == {"optional", "filter", "distinct", "limit", "offset"}
NamedDirective(x) == isinstance(x, "Predicate") /\ x.name \in DirectiveNames
\* the shapes distinct/0, limit/1, offset/1, optional/3, filter/1..N
ExactShape(x) ==
    CASE x.name = "optional" -> Len(x.args) = 3
      [] x.name = "filter"   -> Len(x.args) >= 1
      [] x.name = "distinct" -> Len(x.args) = 0
      [] x.name = "limit"    -> Len(x.args) = 1
      [] x.name = "offset"   -> Len(x.args) = 1
\* what a directive of another shape is refused with
ShapeError(x) ==
    CASE x.name = "optional" ->
            Raise("PrologRuntimeError: rdf: optional: triple arg expected")
      [] x.name = "filter"   -> Raise("IndexError")
      [] x.name = "distinct" ->
            Raise("PrologRuntimeError: rdf: distinct: unexpected arguments.")
      [] x.name = "limit"    ->
            Raise("PrologRuntimeError: rdf: limit: one argument expected.")
      [] x.name = "offset"   ->
            Raise("PrologRuntimeError: rdf: offset: one argument expected.")
NotEnoughError ==
    Raise("PrologRuntimeError: rdf: not enough arguments for triple")
\* the errors of converting a term, a filter expression or a number
ConversionErrors ==
    {"PrologError: only constants are supported",
     "PrologError: unknown argument type", "TypeError",
     "PrologError: _prolog_relational_expression: 2 args expected.",
     "PrologError: _prolog_conditional_expression: 2 args expected.",
     "PrologError: lang filter expression: one argument expected.",
     "PrologRuntimeError: Integer expected"}

\* the first position the steps have not consumed
NextPos(steps) ==
    IF steps = <<>> THEN 1
    ELSE steps[Len(steps)].at + steps[Len(steps)].width

\* C11 as claimed: the scan never stops at a predicate named as a directive
\* but of another shape when two positions follow it and the three terms
\* can be converted: it reads them as a required triple.
C11_AsClaimed ==
    (RdfCalled /\ IsError(ScanOf.err)) =>
        LET p == NextPos(ScanOf.steps)
        IN  (NamedDirective(ScanArgs[p]) /\ ~ExactShape(ScanArgs[p])) =>
               \/ p > Len(ScanArgs) - 2
               \/ \E j \in 0..2 : IsError(NodeOf(ScanArgs[p + j]))

\* C11 amended: the scan consumes the positions from left to right without
\* gap or overlap; a predicate named optional, filter, distinct, limit or
\* offset is consumed alone when it has the exact shape and ends the call
\* with an error when it has another one; every other position is consumed
\* with the next two as a required triple, and ends the call when fewer
\* than three positions remain; a scan that is not ended by an error has
\* consumed every position.
C11_ScanClassifies ==
    RdfCalled =>
        LET st   == ScanOf
            args == ScanArgs
        IN  /\ \A k \in 1..Len(st.steps) :
                  /\ st.steps[k].at = NextPos(SubSeq(st.steps, 1, k - 1))
                  /\ st.steps[k].at + st.steps[k].width - 1 <= Len(args)
                  /\ IF NamedDirective(args[st.steps[k].at])
                     THEN /\ ExactShape(args[st.steps[k].at])
                          /\ st.steps[k].kind = args[st.steps[k].at].name
                          /\ st.steps[k].width = 1
                     ELSE /\ st.steps[k].kind = "triple"
                          /\ st.steps[k].width = 3
            /\ ~IsError(st.err) => NextPos(st.steps) = Len(args) + 1
            /\ IsError(st.err) =>
                  /\ ret = st.err
                  /\ dispatched = <<>>
                  /\ NextPos(st.steps) <= Len(args)
                  /\ LET p == NextPos(st.steps)
                     IN  IF NamedDirective(args[p])
                         THEN IF ExactShape(args[p])
                              THEN st.err.error \in ConversionErrors
                              ELSE st.err = ShapeError(args[p])
                         ELSE IF p > Len(args) - 2
                              THEN st.err = NotEnoughError
                              ELSE st.err.error \in ConversionErrors

\* rdf(limit(2), alice, topic, X, filter(X > 5)) was scanned as a limit, a
\* triple over three positions and a filter, and sent its query
C11_Witness ==
    /\ op.name = "rdf"
    /\ goal = <<LIM2, T1, FILT>>
    /\ ScanOf.steps = <<Step(1, "limit", 1), Step(2, "triple", 3),
                        Step(5, "filter", 1)>>
    /\ Len(dispatched) = 1

RECURSIVE TermVars(_)
\* the names of the variables written in a term
TermVars(x) ==
    IF isinstance(x, "Variable") THEN {x.name}
    ELSE IF isinstance(x, "Predicate")
    THEN UNION {TermVars(x.args[i]) : i \in 1..Len(x.args)}
    ELSE {}
\* the names of the variables written anywhere in the goal
GoalVars == UNION {TermVars(ScanArgs[i]) : i \in 1..Len(ScanArgs)}

RECURSIVE ExprVars(_)
\* the query variables a filter expression refers to
ExprVars(x) ==
    CASE x.t = "rdflib.Variable"      -> {x}
      [] x.t = "RelationalExpression" -> ExprVars(x.expr) \cup ExprVars(x.other)
      [] x.t \in {"ConditionalAndExpression", "ConditionalOrExpression"} ->
            ExprVars(x.expr) \cup ExprVars(x.other[1])
      [] x.t = "Builtin_LANG"         -> ExprVars(x.arg)
      [] OTHER                        -> {}

\* the query variables in the triples of a layer
TripleVars(triples) ==
    {triples[i][j] : i \in 1..Len(triples), j \in 1..3}
        \cap {RdfVariable(n) : n \in GoalVars}

\* the query variables a layer of the tree refers to itself
LayerVars(n) ==
    CASE n.t = "BGP"      -> TripleVars(n.triples)
      [] n.t = "LeftJoin" -> TripleVars(n.p2.triples)
      [] n.t = "Filter"   -> ExprVars(n.expr)
      [] OTHER            -> {}

\* C12: the query a call sends projects exactly the variables written in
\* its goal (none of them bound), one query variable per name and nothing
\* from outside the goal, and every occurrence of a name in a required
\* triple, an optional triple or a filter is that one query variable.
C12_OneVariablePerName ==
    (RdfCalled /\ dispatched # <<>>) =>
        LET q      == dispatched[1]
            layers == LayersOf(q.p)
        IN  /\ q._vars = {RdfVariable(n) : n \in GoalVars}
            /\ {q.PV[i] : i \in 1..Len(q.PV)} = q._vars
            /\ Len(q.PV) = Cardinality(GoalVars)
            /\ UNION {LayerVars(layers[i]) : i \in 1..Len(layers)} = q._vars

\* rdf(alice, topic, X, optional(X, wde:Q1, Y), filter(X > 5)): X occurs in
\* the triple, the optional triple and the filter, and the query projects
\* the two variables X and Y
C12_Witness ==
    /\ op.name = "rdf"
    /\ goal = <<T1, OPT, FILT>>
    /\ Len(dispatched) = 1
    /\ Len(dispatched[1].PV) = 2
    /\ dispatched[1]._vars = {RdfVariable("X"), RdfVariable("Y")}
    /\ dispatched[1].p.t = "Filter"
    /\ dispatched[1].p.expr.expr = RdfVariable("X")
    /\ dispatched[1].p.p.p2.triples[1][1] = RdfVariable("X")
    /\ dispatched[1].p.p.p1.triples[1][3] = RdfVariable("X")

\* the query variables of the triples in the layers from k inwards
VarsBeneath(layers, k) ==
    UNION { IF layers[i].t \in {"BGP", "LeftJoin"} THEN LayerVars(layers[i])
            ELSE {} : i \in k..Len(layers) }

\* C13: every LeftJoin, Filter, Slice and Distinct layer of the tree a call
\* sends carries a variable set, and it is the set of the variables in the
\* required and optional triples beneath it.
C13_AsClaimed ==
    (RdfCalled /\ dispatched # <<>>) =>
        LET layers == LayersOf(dispatched[1].p)
        IN  \A k \in 1..Len(layers) :
               layers[k].t \in {"LeftJoin", "Filter", "Slice", "Distinct"} =>
                  /\ "_vars" \in DOMAIN layers[k]
                  /\ layers[k]._vars = VarsBeneath(layers, k)

-----------------------------------------------------------------------------
(* Claims about the consumption of query results *)

\* the term a node of the store's answers decodes to
DecodedNode(node) ==
    IF node = PlainLiteral("a") THEN StringLiteral("a")
    ELSE NumberLiteral(10)

\* C14: rdf returns False when the store answers with no solution;
\* otherwise it returns one row per solution, in solution order, each
\* mapping exactly the variables the solution binds to their decoded
\* terms; an answer whose solutions bind no variable gives exactly one
\* empty row.  The environment stays as it was.
C14_TabularRows ==
    [][ (op'.name = "rdf" /\ dispatched' # <<>>) =>
          /\ env' = env
          /\ op'.answer = <<>> => ret' = PyBool(FALSE)
          /\ op'.answer # <<>> =>
                /\ ret'.t = "solutions"
                /\ Len(ret'.l) = Len(op'.answer)
                /\ \A i \in 1..Len(op'.answer) :
                      /\ DOMAIN ret'.l[i] = DOMAIN op'.answer[i]
                      /\ \A v \in DOMAIN op'.answer[i] :
                            ret'.l[i][v] = DecodedNode(op'.answer[i][v])
          /\ ( /\ op'.answer # <<>>
               /\ \A i \in 1..Len(op'.answer) : DOMAIN op'.answer[i] = {} )
             => ret' = Solutions(<<EmptyEnv>>)
      ]_vars

\* rdf(alice, topic, v1), a goal without variables, matched: one empty row
C14_Witness ==
    /\ op.name = "rdf"
    /\ goal = <<T0>>
    /\ op.answer = <<EmptyEnv>>
    /\ ret = Solutions(<<EmptyEnv>>)

\* the output arguments of a sparql_query call are distinct variables
Outputs == Tail(Flatten(goal))

DistinctVariables(outs) ==
    /\ \A k \in 1..Len(outs) : outs[k].t = "Variable"
    /\ \A j, k \in 1..Len(outs) : outs[j] = outs[k] => j = k

\* C15: sparql_query with a query text and distinct output variables:
\* zero solutions fail without error; with solutions, a number of outputs
\* different from the number of variables the store reports (more or
\* fewer) fails with the lookup error; equal numbers bind the k-th output
\* to the list of the values of the store variable of label index k, in
\* solution order.
C15_AsClaimed ==
    ( /\ op.name = "sparql_query"
      /\ Len(Flatten(goal)) >= 1
      /\ Flatten(goal)[1].t = "StringLiteral"
      /\ DistinctVariables(Outputs) )
    => /\ Len(op.answer.rows) = 0 => ret = PyBool(FALSE) /\ env = EmptyEnv
       /\ ( Len(op.answer.rows) > 0 /\ Len(Outputs) # Len(op.answer.labels) )
          => ret = Raise("KeyError")
       /\ ( Len(op.answer.rows) > 0 /\ Len(Outputs) = Len(op.answer.labels) )
          => /\ ret = PyBool(TRUE)
             /\ \A k \in 1..Len(Outputs) :
                   /\ Outputs[k].name \in DOMAIN env
                   /\ env[Outputs[k].name] = ListLiteral(res_map(op.answer, k))

-----------------------------------------------------------------------------
(* Claims about the codec *)

\* C16: a term built from Number, String, Constant and nested List, once
\* encoded and decoded, is the term it was: same variant, same value.
C16_AsClaimed ==
    op.name = "decode" => ret = goal[1][1]

-----------------------------------------------------------------------------
(* Claims about filters *)

\* the filter directives of the goal, in goal order
FilterDirectives ==
    SelectSeq(Flatten(goal),
              LAMBDA x : isinstance(x, "Predicate") /\ x.name = "filter")

RECURSIVE FilterExprs(_)
\* the expressions of the Filter layers of a tree, innermost first
FilterExprs(p) ==
    CASE p.t = "Filter"             -> Append(FilterExprs(p.p), p.expr)
      [] p.t \in {"Slice", "Distinct"} -> FilterExprs(p.p)
      [] OTHER                      -> <<>>

RECURSIVE Unlowered(_)
\* the Prolog expression a lowered filter expression stands for
Unlowered(x) ==
    CASE x.t = "ConditionalAndExpression" ->
            Predicate("and", <<Unlowered(x.expr), Unlowered(x.other[1])>>)
      [] x.t = "ConditionalOrExpression" ->
            Predicate("or", <<Unlowered(x.expr), Unlowered(x.other[1])>>)
      [] x.t = "RelationalExpression" ->
            Predicate(CHOOSE n \in RelationalOps : RelationalOp(n) = x.op,
                      <<Unlowered(x.expr), Unlowered(x.other)>>)
      [] x.t = "rdflib.Variable" -> Variable(x.value)
      [] OTHER -> rdf_to_pl(x)

RECURSIVE LeftAnd(_)
\* and(and(e1, e2), e3) ...
LeftAnd(es) ==
    IF Len(es) = 1 THEN es[1]
    ELSE Predicate("and", <<LeftAnd(SubSeq(es, 1, Len(es) - 1)), es[Len(es)]>>)

RECURSIVE RightAnd(_)
\* and(e1, and(e2, e3)) ...
RightAnd(es) ==
    IF Len(es) = 1 THEN es[1]
    ELSE Predicate("and", <<es[1], RightAnd(Tail(es))>>)

\* C17 as stated: a filter directive with arguments e1..eN is lowered as
\* the right-associated tree and(e1, and(e2, ... and(eN-1, eN))), a filter
\* with one argument as that argument; each filter directive contributes
\* exactly one filter expression.
C17_AsClaimed ==
    dispatched # <<>> =>
        /\ Len(FilterExprs(dispatched[1].p)) = Len(FilterDirectives)
        /\ \A k \in 1..Len(FilterDirectives) :
              Unlowered(FilterExprs(dispatched[1].p)[k])
                  = RightAnd(FilterDirectives[k].args)

\* C17 (amended): a filter directive with arguments e1..eN is lowered as
\* the left-associated tree and(and(and(e1, e2), e3) ..., eN), a filter
\* with one argument as that argument; each filter directive contributes
\* exactly one filter expression, in goal order.
C17_LeftAndTree ==
    dispatched # <<>> =>
        /\ Len(FilterExprs(dispatched[1].p)) = Len(FilterDirectives)
        /\ \A k \in 1..Len(FilterDirectives) :
              Unlowered(FilterExprs(dispatched[1].p)[k])
                  = LeftAnd(FilterDirectives[k].args)

\* rdf(alice, topic, X, filter(X > 5.0, X < 10.0, Y = 1.0)) has sent its
\* query with and(and(X > 5.0, X < 10.0), Y = 1.0)
C17_Witness ==
    /\ goal = <<T1, FILT3>>
    /\ dispatched # <<>>
    /\ Unlowered(FilterExprs(dispatched[1].p)[1])
          = Predicate("and", <<Predicate("and", <<GT, LT>>), EQ>>)

-----------------------------------------------------------------------------
(* Claims about writes and reads of the context store *)

\* the entries of a user for a key, in the context graph / in any graph
ContextEntries(store, user, key) ==
    {q \in store : q.s = user /\ q.p = USER_PROP_PREFIX(key)
                              /\ q.g = CONTEXT_GRAPH_NAME}
Entries(store, user, key) ==
    {q \in store : q.s = user /\ q.p = USER_PROP_PREFIX(key)}
Others(store, user, key) ==
    {q \in store : ~(q.s = user /\ q.p = USER_PROP_PREFIX(key))}

ReadAsClaimed(store, key) ==
    IF CurinQuad \in store /\ Entries(store, ALICE, key) # {}
    THEN {rdf_to_pl(q.o) : q \in Entries(store, ALICE, key)}
    ELSE IF Entries(store, DEFAULT_USER, key) # {}
    THEN {rdf_to_pl(q.o) : q \in Entries(store, DEFAULT_USER, key)}
    ELSE {None}

\* a step of read or context_get, as C19 describes it
C19_Body ==
    /\ op'.name = "read_context" =>
          ret' \in ReadAsClaimed(kb, op'.key) /\ kb' = kb
    /\ ( /\ op'.name = "context_get"
         /\ Len(op'.args) = 2
         /\ op'.args[2].t = "Variable"
         /\ ReadAsClaimed(kb, op'.args[1].name) = {None} )
       => ret' = PyBool(FALSE) /\ env' = env /\ kb' = kb

\* C19: read(key) returns the current user's value for key when one is
\* stored; otherwise (no current user, or no entry of the current user)
\* the default user's value; otherwise no value, without raising, and
\* context_get then fails without binding its output variable; read never
\* changes the store.
C19_AsClaimed == [][C19_Body]_vars

-----------------------------------------------------------------------------
(* Claims about the execution of a record *)

\* the positions of a record's sub-actions that name a registered deferred
\* builtin
RecognizedIn(actions) ==
    SelectSeq([i \in 1..Len(actions) |-> i],
              LAMBDA i : Recognized(actions[i]))

\* the positions whose handler the last step has invoked, in order
InvokedBy(before, after) ==
    [j \in 1..(Len(after) - Len(before)) |-> after[Len(before) + j].idx]

\* C20: execute_builtin_actions(record) invokes the handlers of exactly the
\* sub-actions whose head is a predicate named as a registered deferred
\* action, in queue order; every other sub-action is skipped without
\* error and without any state change, so a record without such a
\* sub-action is processed without error and leaves the store as it was.
C20_AsClaimed ==
    [][ op'.name = "execute_builtin_actions" =>
          /\ ~IsError(ret') =>
                InvokedBy(hlog, hlog') = RecognizedIn(action_buffer[op'.rec].actions)
          /\ RecognizedIn(action_buffer[op'.rec].actions) = <<>> =>
                ~IsError(ret') /\ kb' = kb
      ]_vars

-----------------------------------------------------------------------------
(* Claims about the filter expression builder *)

\* the operand count an operator of the builder asks for
Operands(name) == IF name = "lang" THEN 1 ELSE 2

BuilderOps == {"=", "\\=", "<", ">", "=<", ">=", "is", "and", "or", "lang"}

IsBuilderExpression(x) == x.t = "Predicate" /\ x.name \in BuilderOps

ArityError(name) ==
    IF name = "lang"
    THEN Raise("PrologError: lang filter expression: one argument expected.")
    ELSE IF name \in {"and", "or"}
    THEN Raise("PrologError: _prolog_conditional_expression: 2 args expected.")
    ELSE Raise("PrologError: _prolog_relational_expression: 2 args expected.")

RECURSIVE FirstFailure(_)
RECURSIVE FirstFailureIn(_, _)
\* the error met first when x is lowered operand by operand, left to
\* right, or None: a builder expression with a wrong operand count fails
\* before its operands are looked at, any other predicate with arguments
\* is refused by the codec
FirstFailure(x) ==
    IF IsBuilderExpression(x)
    THEN IF Len(x.args) # Operands(x.name)
         THEN ArityError(x.name)
         ELSE FirstFailureIn(x.args, 1)
    ELSE IF x.t = "Predicate" /\ Len(x.args) > 0
    THEN Raise("PrologError: only constants are supported")
    ELSE None
FirstFailureIn(args, i) ==
    IF i > Len(args) THEN None
    ELSE IF FirstFailure(args[i]) # None THEN FirstFailure(args[i])
    ELSE FirstFailureIn(args, i + 1)

\* C21: each of =, \=, <, >, =<, >=, is, and, or with an operand count
\* other than two, and lang with an operand count other than one, fails
\* with the argument-count error, at the top and wherever the lowering
\* reaches it among the operands; a predicate with another name does not
\* fail in the builder and is handed to pl_to_rdf.
C21_BuilderArities ==
    op.name = "prolog_to_filter_expression" =>
        /\ ( IsBuilderExpression(goal[1][1])
              /\ Len(goal[1][1].args) # Operands(goal[1][1].name) )
           => ret = ArityError(goal[1][1].name)
        /\ IF FirstFailure(goal[1][1]) # None
           THEN ret = FirstFailure(goal[1][1])
           ELSE ~IsError(ret)
        /\ ~IsBuilderExpression(goal[1][1])
           => ret = pl_to_rdf(goal[1][1], env, <<>>).node

\* X > and(lang(), X) has been lowered: the lang without operand, two levels
\* down, has ended it with its argument-count error
C21_Witness ==
    /\ op.name = "prolog_to_filter_expression"
    /\ goal[1][1] = Predicate(">", <<Variable("X"),
                       Predicate("and", <<Predicate("lang", <<>>), Variable("X")>>)>>)
    /\ ret = Raise("PrologError: lang filter expression: one argument expected.")

-----------------------------------------------------------------------------
(* Claims about rdf_lists *)

\* the decoded values of v over the solutions that bind it, in solution
\* order
ValuesOf(answer, v) ==
    LET binding == SelectSeq(answer, LAMBDA sol : v \in DOMAIN sol)
    IN  [i \in 1..Len(binding) |-> DecodedNode(binding[i][v])]

BoundIn(answer) == UNION {DOMAIN answer[i] : i \in 1..Len(answer)}

\* C22: rdf_lists fails and leaves the environment as it was when the
\* store answers with no solution; otherwise it succeeds and every
\* variable bound in at least one solution is bound to one list of that
\* variable's decoded values over all solutions, in solution order, also
\* when the variable had a binding before the call; the other bindings
\* stay.
C22_Columns ==
    ( op.name = "rdf_lists" /\ dispatched # <<>> ) =>
        /\ op.answer = <<>> => ret = PyBool(FALSE) /\ env = op.before
        /\ op.answer # <<>> =>
              /\ ret = PyBool(TRUE)
              /\ DOMAIN env = DOMAIN op.before \cup BoundIn(op.answer)
              /\ \A v \in BoundIn(op.answer) :
                    env[v] = ListLiteral(ValuesOf(op.answer, v))
              /\ \A v \in DOMAIN op.before \ BoundIn(op.answer) :
                    env[v] = op.before[v]

\* rdf_lists(alice, topic, X, optional(X, wde:Q1, Y)) with X bound to []
\* before the call, answered with two solutions of which the second
\* leaves Y out
C22_Witness ==
    /\ op.name = "rdf_lists"
    /\ goal = <<T1, OPT>>
    /\ "X" \in DOMAIN op.before
    /\ Len(op.answer) = 2
    /\ env["X"] = ListLiteral(<<StringLiteral("a"), NumberLiteral(10)>>)
    /\ env["Y"] = ListLiteral(<<StringLiteral("a")>>)

-----------------------------------------------------------------------------
(* Claims about the committed buffer *)

\* C23: reset_actions empties the committed buffer whatever it held and
\* leaves the store as it was; while the buffer is empty get_actions
\* returns nothing in both modes, and only eoa or say_eoa (end_action) put
\* a record into it again; get_actions(highscore_only=False) returns all
\* committed records in the order of the buffer, the commit order.
C23_Reset ==
    [][ /\ op'.name = "reset_actions" =>
              action_buffer' = <<>> /\ kb' = kb
        /\ ( action_buffer = <<>> /\ ~(op'.name \in {"eoa", "say_eoa"}) ) =>
              action_buffer' = <<>>
        /\ ( op'.name = "get_actions" /\ action_buffer = <<>> ) =>
              ret'.l = <<>>
        /\ ( op'.name = "get_actions" /\ ~op'.highscore_only ) =>
              ret'.l = action_buffer /\ action_buffer' = action_buffer
      ]_vars

\* two records were committed and reset_actions has cleared them
C23_Witness ==
    /\ op.name = "reset_actions"
    /\ op.cleared = 2
    /\ action_buffer = <<>>

\* the builtins that queue a sub-action without committing
QueueOps == {"deferred", "action", "say"}

\* C24: a committed record keeps its sub-action sequence and its score
\* through every later queue, deferred builtin and end_action (only
\* reset_actions drops it); a successful eoa or say_eoa leaves no list in
\* progress, and a queue with none in progress starts a list that holds
\* exactly the sub-action queued
C24_CommittedKept ==
    [][ /\ op'.name # "reset_actions" =>
              /\ Len(action_buffer') >= Len(action_buffer)
              /\ \A i \in 1..Len(action_buffer) :
                    action_buffer'[i] = action_buffer[i]
        /\ ( op'.name \in {"eoa", "say_eoa"} /\ ~IsError(ret') ) =>
              /\ ~InProgress(env')
              /\ Len(action_buffer') = Len(action_buffer) + 1
        /\ ( op'.name \in QueueOps /\ ~InProgress(env) ) =>
              Len(InProgressList(env')) = 1
      ]_vars

\* a sub-action queued after a commit, in a list of its own
C24_Witness ==
    /\ Len(action_buffer) = 1
    /\ Len(action_buffer[1].actions) = 1
    /\ op.name \in QueueOps
    /\ Len(InProgressList(env)) = 1

-----------------------------------------------------------------------------
(* SpecDefault: the context store of a current user beside an entry of    *)
(* the default user: pushes and writes of terms the codec takes and of    *)
(* one it rejects                                                          *)

\* a term pl_literal_to_rdf and the JSON encoder both reject
REJECTED == Predicate("f", <<V1>>)

\* the default user's stack for topic: one entry, MAX_CONTEXT_LEN entries,
\* none
DefaultStacks ==
    {ListLiteral(<<V3>>), ListLiteral(<<V1, V2, V3, V1, V2, V3>>),
     ListLiteral(<<>>)}
\* the current user's stack for topic, if any
OwnStacks == {ListLiteral(<<V2>>)}

StackEntry(user, l) ==
    Quad(user, USER_PROP_PREFIX("topic"), pl_literal_to_rdf(l),
         CONTEXT_GRAPH_NAME)

InitDefault ==
    /\ \E d \in DefaultStacks :
       \E own \in {{}} \cup {{StackEntry(ALICE, l)} : l \in OwnStacks} :
          kb = {CurinQuad, StackEntry(DEFAULT_USER, d)} \cup own
    /\ emptyListFalse \in BOOLEAN
    /\ env = EmptyEnv
    /\ action_buffer = <<>>
    /\ op = [name |-> "init"]
    /\ ret = None
    /\ hist = NoHist
    /\ hlog = <<>>
    /\ execCalls = <<>>
    /\ nexec = 0
    /\ dispatched = <<>>
    /\ goal = <<>>

NextDefault ==
    \/ \E key \in CtxKeys, value \in WriteValues : CtxWrite(key, value)
    \/ \E key \in CtxKeys, value \in PushValues \cup {REJECTED} :
          CtxPush(key, value)
    \/ \E key \in CtxKeys : CtxRead(key)

SpecDefault == InitDefault /\ [][NextDefault]_vars

-----------------------------------------------------------------------------
(* Claims about the default user's entry and about rejected terms *)

\* the stack of a user for a key, decoded
StackOf(store, user, key) ==
    {rdf_to_pl(q.o) : q \in Entries(store, user, key)}

\* C25: when alice, the current user, has no entry for the key and the
\* default user has a stack d, a push of term gives alice the one entry
\* term followed by d, cut to 6 entries; no push and no write of alice
\* changes an entry of the default user.
C25_PushFromDefault ==
    [][ /\ ( /\ op'.name = "push_context" /\ ~IsError(ret')
             /\ Entries(kb, ALICE, op'.key) = {}
             /\ Entries(kb, DEFAULT_USER, op'.key) # {} )
           => \A d \in StackOf(kb, DEFAULT_USER, op'.key) :
                /\ StackOf(kb', ALICE, op'.key) =
                      {ListLiteral(SubSeq(<<op'.value>> \o d.l, 1,
                          IF Len(d.l) + 1 < 6 THEN Len(d.l) + 1 ELSE 6))}
                /\ Cardinality(ContextEntries(kb', ALICE, op'.key)) = 1
        /\ op'.name \in {"push_context", "write_context"} =>
              \A key \in {"topic", "mood"} :
                 Entries(kb', DEFAULT_USER, key) = Entries(kb, DEFAULT_USER, key)
      ]_vars

\* alice, without an entry, pushed v1 onto the default user's six entries:
\* her entry is v1 and the first five of them, the default user's entry
\* is as it was
C25_Witness ==
    /\ op.name = "push_context" /\ op.value = V1
    /\ hist["topic"].prior = <<V1, V2, V3, V1, V2, V3>>
    /\ hist["topic"].pushed = <<V1>>
    /\ StackOf(kb, DEFAULT_USER, "topic") =
          {ListLiteral(<<V1, V2, V3, V1, V2, V3>>)}
    /\ StackOf(kb, ALICE, "topic") =
          {ListLiteral(<<V1, V1, V2, V3, V1, V2>>)}

\* C26: a write or a push of a predicate with arguments fails and leaves
\* the store as it was, the entry the current user had included.
C26_RejectedKeeps ==
    [][ ( /\ op'.name \in {"write_context", "push_context"}
          /\ isinstance(op'.value, "Predicate")
          /\ Len(op'.value.args) > 0 )
        => /\ IsError(ret')
           /\ kb' = kb
           /\ Entries(kb', ALICE, op'.key) = Entries(kb, ALICE, op'.key)
      ]_vars

\* a push of f(v1) has failed and alice's entry is still there
C26_Witness ==
    /\ op.name = "push_context"
    /\ op.value = REJECTED
    /\ IsError(ret)
    /\ StackOf(kb, ALICE, "topic") = {ListLiteral(<<V2>>)}

-----------------------------------------------------------------------------
(* Claims relating the two modes of context_score *)

\* the scores that the solutions sols of unbound mode give the value v
ScoresFor(sols, v) ==
    {sols[j][SCOREV].f : j \in {h \in 1..Len(sols) : sols[h]["X"] = v}}

\* C27: for points >= 0 and a candidate v that occurs in the stored stack,
\* bound mode accepts v exactly if unbound mode, called with the same
\* points, score and minimum, yields a solution whose value is v, and the
\* score it binds is the highest score of those solutions.
C27_ModesAgree ==
    ( /\ op.name = "context_score" /\ ~isinstance(op.arg1, "Variable")
      /\ op.points >= 0 ) =>
        \A stack \in read_context(kb, op.key) :
            ( /\ isinstance(stack, "ListLiteral")
              /\ \E i \in 1..Len(stack.l) : stack.l[i] = op.arg1 ) =>
                \A u \in builtin_context_score(kb, ScoreEnv(op.score_in),
                              op.key, Variable("X"), op.points, MinScore(op)) :
                    /\ u.ret.t = "solutions"
                    /\ ret \in {PyBool(TRUE), PyBool(FALSE)}
                    /\ (ret = PyBool(TRUE)) <=> (ScoresFor(u.ret.l, op.arg1) # {})
                    /\ ret = PyBool(TRUE) =>
                          /\ env[SCOREV].f \in ScoresFor(u.ret.l, op.arg1)
                          /\ \A f \in ScoresFor(u.ret.l, op.arg1) :
                                f <= env[SCOREV].f

\* stack [v2,v3,v2,v3,v1,v1], points 12.0, minimum 5.0, candidate v3:
\* unbound mode keeps v3 at position 2 only, bound mode accepts with 6.0
C27_Witness ==
    /\ op.name = "context_score" /\ op.arg1 = V3 /\ op.points = 60
    /\ op.score_in = <<>> /\ op.min_arg = <<25>>
    /\ read_context(kb, "topic") = {ListLiteral(<<V2, V3, V2, V3, V1, V1>>)}
    /\ ret = PyBool(TRUE)
    /\ env[SCOREV] = NumberLiteral(30)

=============================================================================
